---- MODULE Spec2Model ----
(***************************************************************************)
(* wrkflw: the sequential workflow execution engine (ExecutionEngine),     *)
(* the SQLite-backed WorkflowStorage, the WorkflowBuilder and the          *)
(* WorkflowRun handle, as one state machine.                               *)
(***************************************************************************)
EXTENDS Integers, Sequences, FiniteSets, TLC

\* ------------------------------------------------------------------ bounds
MaxVal == 1            \* JSON numbers 0..MaxVal flow through the steps
MaxSteps == 2          \* longest step flow the builder is driven to
MaxClock == 1          \* unixepoch() / Date.now() range over 0..MaxClock
MaxStarts == 2         \* start() calls over the life of the system
MaxStorageFailures == 1 \* storage operations that fail

\* ------------------------------------------------------------------ values
\* JavaScript values are written as their JSON text; undefined has none.
Undefined == "undefined"
Null == "null"
EmptyObj == "{}"
Numbers == {ToString(n) : n \in 0..MaxVal}
Values == Numbers \cup {Undefined, Null, EmptyObj}

\* JavaScript truthiness, as used by `snapshot.result ? ... : null`
\* and `row[7] ? ... : undefined`.
Truthy(v) == v \notin {"0", Undefined, Null}

\* `a ?? b`
Coalesce(a, b) == IF a \in {Undefined, Null} THEN b ELSE a

\* A TEXT column holds a JSON text or SQL NULL.  A value's JSON text is the
\* value as written here; JSON.stringify(undefined) is undefined, which is
\* bound as NULL, and JSON.parse(null) is null.
SqlNull == "NULL"
JsonStringify(v) == IF v = Undefined THEN SqlNull ELSE v
JsonParse(t) == IF t = SqlNull THEN Null ELSE t

\* ------------------------------------------------------------------ errors
\* A thrown value: an Error with a message, or any other value (a string).
\* str is String(value).
ErrorObj(m) == [isError |-> TRUE, message |-> m, str |-> "Error: " \o m]
ThrownString(s) == [isError |-> FALSE, message |-> Undefined, str |-> s]
\* JSON.parse(JSON.stringify(new Error(m))) is the plain object {}.
PlainObject == [isError |-> FALSE, message |-> Undefined, str |-> "[object Object]"]

ZodError == ErrorObj("invalid")
StorageError == ErrorObj("storage")
Throwables == {ErrorObj("boom"), ThrownString("oops")}

\* `error instanceof Error ? error : new Error(String(error))`
NormalizeError(e) == IF e.isError THEN e ELSE ErrorObj(e.str)
\* `error instanceof Error ? error.message : String(error)`
ErrorMessage(e) == IF e.isError THEN e.message ELSE e.str

\* ----------------------------------------------------------------- schemas
\* A Zod schema is what parse() does with a value: it throws, or returns the
\* parsed value, which a transforming schema changes.
Invalid == "<ZodError>"
Schemas == {"any", "nonzero", "atLeastOne"}

Parse(schema, v) ==
    CASE schema = "any" -> v
      [] schema = "nonzero" -> IF v \in Numbers /\ v # "0" THEN v ELSE Invalid
      [] schema = "atLeastOne" -> IF v \notin Numbers THEN Invalid
                                  ELSE IF v = "0" THEN "1" ELSE v

\* ----------------------------------------------------------------- storage
RunIds == {"r1", "r2"}
WorkflowIds == {"wf1", "wf2"}
Statuses == {"running", "success", "failed"}

\* JSON.stringify of one StepResult: an Error has no enumerable property and
\* is written as {}; a key whose value is undefined is left out.
StringifyStepResult(r) ==
    IF r.status = "failed"
    THEN [status |-> "failed", error |-> PlainObject, timestamp |-> r.timestamp]
    ELSE IF r.status = "success" /\ r.output # Undefined
    THEN [status |-> "success", output |-> r.output, timestamp |-> r.timestamp]
    ELSE [status |-> r.status, timestamp |-> r.timestamp]

StringifyStepResults(sr) == [id \in DOMAIN sr |-> StringifyStepResult(sr[id])]

\* Faulty variant of saveSnapshot: the INSERT leaves out the result column, which
\* only the DO UPDATE branch sets.
saveSnapshotInsertWithoutResult(rows, t, s) ==
    LET result == IF Truthy(s.result) THEN JsonStringify(s.result) ELSE SqlNull
        error == Coalesce(s.error, SqlNull)
    IN  IF s.runId \in DOMAIN rows
        THEN [rows EXCEPT ![s.runId] =
                [@ EXCEPT !.status = s.status,
                          !.execution_path = s.executionPath,
                          !.step_results = StringifyStepResults(s.stepResults),
                          !.state = JsonStringify(s.state),
                          !.result = result,
                          !.error = error,
                          !.updated_at = t]]
        ELSE [r \in DOMAIN rows \cup {s.runId} |->
                IF r = s.runId
                THEN [workflow_id |-> s.workflowId,
                      status |-> s.status,
                      execution_path |-> s.executionPath,
                      step_results |-> StringifyStepResults(s.stepResults),
                      state |-> JsonStringify(s.state),
                      input_data |-> JsonStringify(s.inputData),
                      result |-> SqlNull,
                      error |-> error,
                      created_at |-> t,
                      updated_at |-> t]
                ELSE rows[r]]

\* Faulty variant of saveSnapshot: the DO UPDATE branch leaves the result and
\* error columns as they were.
saveSnapshotKeepsOutcome(rows, t, s) ==
    LET result == IF Truthy(s.result) THEN JsonStringify(s.result) ELSE SqlNull
        error == Coalesce(s.error, SqlNull)
    IN  IF s.runId \in DOMAIN rows
        THEN [rows EXCEPT ![s.runId] =
                [@ EXCEPT !.status = s.status,
                          !.execution_path = s.executionPath,
                          !.step_results = StringifyStepResults(s.stepResults),
                          !.state = JsonStringify(s.state),
                          !.updated_at = t]]
        ELSE [r \in DOMAIN rows \cup {s.runId} |->
                IF r = s.runId
                THEN [workflow_id |-> s.workflowId,
                      status |-> s.status,
                      execution_path |-> s.executionPath,
                      step_results |-> StringifyStepResults(s.stepResults),
                      state |-> JsonStringify(s.state),
                      input_data |-> JsonStringify(s.inputData),
                      result |-> result,
                      error |-> error,
                      created_at |-> t,
                      updated_at |-> t]
                ELSE rows[r]]

\* INSERT ... ON CONFLICT(run_id) DO UPDATE SET ...: the row written at time
\* t for snapshot s into table rows (a function from stored run ids to rows).
saveSnapshot(rows, t, s) ==
    LET result == IF Truthy(s.result) THEN JsonStringify(s.result) ELSE SqlNull
        error == Coalesce(s.error, SqlNull)
    IN  IF s.runId \in DOMAIN rows
        THEN [rows EXCEPT ![s.runId] =
                [@ EXCEPT !.status = s.status,
                          !.execution_path = s.executionPath,
                          !.step_results = StringifyStepResults(s.stepResults),
                          !.state = JsonStringify(s.state),
                          !.result = result,
                          !.error = error,
                          !.updated_at = t]]
        ELSE [r \in DOMAIN rows \cup {s.runId} |->
                IF r = s.runId
                THEN [workflow_id |-> s.workflowId,
                      status |-> s.status,
                      execution_path |-> s.executionPath,
                      step_results |-> StringifyStepResults(s.stepResults),
                      state |-> JsonStringify(s.state),
                      input_data |-> JsonStringify(s.inputData),
                      result |-> result,
                      error |-> error,
                      created_at |-> t,
                      updated_at |-> t]
                ELSE rows[r]]

\* One result row as a WorkflowSnapshot.
RowToSnapshot(runId, row) ==
    [runId |-> runId,
     workflowId |-> row.workflow_id,
     status |-> row.status,
     executionPath |-> row.execution_path,
     stepResults |-> row.step_results,
     state |-> JsonParse(row.state),
     inputData |-> JsonParse(row.input_data),
     result |-> IF row.result # SqlNull THEN JsonParse(row.result) ELSE Undefined,
     error |-> IF row.error = SqlNull THEN Null ELSE row.error,
     timestamp |-> row.updated_at]

\* loadSnapshot returns null when no row has the run id.
NoSnapshot == [runId |-> Null]
loadSnapshot(rows, runId) ==
    IF runId \in DOMAIN rows THEN RowToSnapshot(runId, rows[runId]) ELSE NoSnapshot

\* ORDER BY updated_at DESC leaves the order of equal keys open: every
\* sequence of the selected run ids with non-increasing updated_at.
OrderByUpdatedAtDesc(rows, ids) ==
    {q \in [1..Cardinality(ids) -> ids] :
        /\ \A i, j \in DOMAIN q : i # j => q[i] # q[j]
        /\ \A i, j \in DOMAIN q : i < j => rows[q[i]].updated_at >= rows[q[j]].updated_at}

SnapshotsOf(rows, q) == [i \in DOMAIN q |-> RowToSnapshot(q[i], rows[q[i]])]

\* `workflowId ? <query with WHERE workflow_id = ?> : <query without>`:
\* workflowId = Undefined is the call without argument, and the empty
\* string, being falsy, takes the same branch.
EmptyString == ""
Given(workflowId) == workflowId \notin {Undefined, EmptyString}

\* Faulty variant of listRuns: the query has no WHERE clause.
listRunsWithoutWhere(rows, workflowId) ==
    {SnapshotsOf(rows, q) : q \in OrderByUpdatedAtDesc(rows, DOMAIN rows)}

listRuns(rows, workflowId) ==
    LET ids == {r \in DOMAIN rows :
                  Given(workflowId) => rows[r].workflow_id = workflowId}
    IN  {SnapshotsOf(rows, q) : q \in OrderByUpdatedAtDesc(rows, ids)}

getRunsByStatus(rows, status, workflowId) ==
    LET ids == {r \in DOMAIN rows :
                  /\ rows[r].status = status
                  /\ Given(workflowId) => rows[r].workflow_id = workflowId}
    IN  {SnapshotsOf(rows, q) : q \in OrderByUpdatedAtDesc(rows, ids)}

\* Faulty variant of deleteRun: the DELETE selects by the workflow of the run.
deleteRunsOfWorkflow(rows, runId) ==
    [r \in {x \in DOMAIN rows :
               runId \notin DOMAIN rows \/ rows[x].workflow_id # rows[runId].workflow_id}
       |-> rows[r]]

\* DELETE FROM wrkflw_workflow_runs WHERE run_id = ?
deleteRun(rows, runId) == [r \in DOMAIN rows \ {runId} |-> rows[r]]

\* ----------------------------------------------------------------- builder
\* createStep(config): the steps the builder is given.  An execution
\* function is arbitrary code; what it does is chosen when it runs.
StepDefs ==
    {[id |-> "a", inputSchema |-> "any", outputSchema |-> "nonzero"],
     [id |-> "b", inputSchema |-> "nonzero", outputSchema |-> "any"]}
StepIds == {s.id : s \in StepDefs}

\* createWorkflow(config): a builder with no steps.
createWorkflow(config) == [config |-> config, steps |-> <<>>, stepFlow |-> <<>>]

\* WorkflowBuilder.then(step): { ...steps, [step.id]: step } and
\* [...stepFlow, { type: "step", step }].
then(b, step) ==
    [config |-> b.config,
     steps |-> [id \in DOMAIN b.steps \cup {step.id} |->
                   IF id = step.id THEN step ELSE b.steps[id]],
     stepFlow |-> Append(b.stepFlow, [type |-> "step", step |-> step])]

\* ------------------------------------------------------------------- state
Calls == {"c1", "c2"}
\* Who writes snapshots: a start() call, or a direct user of WorkflowStorage.
Writers == Calls \cup {"api"}

VARIABLES
    request,        \* the POST /api/workflows/:id/runs request being handled
    heap,           \* the builders and workflows made from one createWorkflow call
    builder,        \* the WorkflowBuilder at the end of the chain
    workflow,       \* the committed Workflow ([committed |-> FALSE] before commit)
    db,             \* table wrkflw_workflow_runs: run_id -> row
    now,            \* the clock behind unixepoch() and Date.now()
    call,           \* per start() call: position and locals of execute()
    hist,           \* per writer: what it has done so far (history)
    starts,         \* start() calls made so far
    storageFailures, \* storage operations that have failed so far
    schema,         \* the tables and indexes in sqlite_master
    legacy,         \* table workflow_runs of earlier versions: run_id -> row
    storage,        \* per WorkflowStorage instance: its fields and its init body
    initCall        \* per init() call: which promise it awaits, how it ended

initVars == <<schema, legacy, storage, initCall>>
vars == <<request, heap, builder, workflow, db, now, call, hist, starts, storageFailures,
          schema, legacy, storage, initCall>>

\* No request is being handled.
NoRequest == [pc |-> "idle"]

\* No builder object is tracked.
NoHeap == [arrays |-> <<>>, objects |-> <<>>, builders |-> <<>>, workflows |-> <<>>]

NoResult == [status |-> "none"]
NoError == [isError |-> FALSE, message |-> Undefined, str |-> Undefined]
NoContext == [workflowId |-> Undefined, runId |-> Undefined, executionPath |-> <<>>,
              stepResults |-> <<>>, state |-> Undefined, inputData |-> Undefined]
NoStepContext == [inputData |-> Undefined, state |-> Undefined]

IdleCall ==
    [pc |-> "idle", runId |-> Undefined, context |-> NoContext,
     validatedInput |-> Undefined, currentOutput |-> Undefined, i |-> 0,
     timestamp |-> 0, result |-> NoResult, stepContext |-> NoStepContext,
     error |-> NoError, returned |-> Undefined]

NoWrite == [runId |-> Null]
NoLookup == [step |-> -1, id |-> Undefined, outcome |-> Undefined, caught |-> FALSE]
IdleHist ==
    [inputData |-> Undefined,  \* the inputData start() was given
     fed |-> <<>>,             \* [step, input]: candidate input given to executeStep
     invoked |-> <<>>,         \* indices of the steps whose execute() was invoked
     recorded |-> <<>>,        \* [step, id, status]: assignments to stepResults[id]
     lastSet |-> [step |-> -1, value |-> Undefined], \* the last setState(value)
     lastLookup |-> NoLookup,  \* the last getStepResult call and what it did
     lastInit |-> [step |-> -1, value |-> Undefined], \* the last getInitData()
     lastWrite |-> NoWrite,    \* the last snapshot this writer wrote
     nWrites |-> 0,            \* how many snapshots this start() call has written
     nFailed |-> 0,            \* how many of them had status failed
     order |-> <<>>,           \* the run ids it has saved, by last save, oldest first
     resaved |-> FALSE,        \* its last two writes were of the same snapshot
     storageFailed |-> FALSE]  \* a storage operation of this call failed

\* The schema objects init() and the migration deal with.
OldTable == "workflow_runs"
NewTable == "wrkflw_workflow_runs"
WorkflowIdIndex == "idx_wrkflw_workflow_runs_workflow_id"
StatusIndex == "idx_wrkflw_workflow_runs_status"
NewObjects == {NewTable, WorkflowIdIndex, StatusIndex}
SchemaObjects == NewObjects \cup {OldTable}

\* `CREATE TABLE wrkflw_workflow_runs` when the table exists.
AlreadyExists == ErrorObj("table wrkflw_workflow_runs already exists")

\* WorkflowStorage instances (each Workflow constructs its own; "s1" is
\* the one of the committed workflow) and init() calls.
Storages == {"s1", "s2"}
InitCallers == {"i1", "i2", "i3"}

\* new WorkflowStorage(): initialized = false, initPromise = null.  pc,
\* oldTableExists, newTableExists and rowCount are the position and the
\* locals of the async body behind initPromise; copied tells whether that
\* body ran the INSERT ... SELECT.
NewStorage ==
    [initialized |-> FALSE, initPromise |-> "null", pc |-> "none",
     oldTableExists |-> FALSE, newTableExists |-> FALSE, rowCount |-> 0,
     copied |-> FALSE, error |-> NoError]
InitializedStorage ==
    [NewStorage EXCEPT !.initialized = TRUE, !.initPromise = "fulfilled", !.pc = "done"]
IdleInitCall == [pc |-> "idle", storage |-> Undefined, error |-> NoError]

Configs ==
    [id : {"wf1"}, inputSchema : {"nonzero", "atLeastOne"},
     outputSchema : {"any", "nonzero"}, stateSchema : {Undefined, "any"}]

Init ==
    /\ \E config \in Configs : builder = createWorkflow(config)
    /\ workflow = [committed |-> FALSE]
    /\ db = <<>>
    /\ now = 0
    /\ request = NoRequest
    /\ heap = NoHeap
    /\ call = [c \in Calls |-> IdleCall]
    /\ hist = [c \in Writers |-> IdleHist]
    /\ starts = 0
    /\ storageFailures = 0
    /\ schema = NewObjects
    /\ legacy = <<>>
    /\ storage = [s \in Storages |-> NewStorage]
    /\ initCall = [i \in InitCallers |-> IdleInitCall]

\* ----------------------------------------------------------------- actions
\* builder.then(step)
Then(step) ==
    /\ ~workflow.committed
    /\ Len(builder.stepFlow) < MaxSteps
    /\ builder' = then(builder, step)
    /\ UNCHANGED <<request, heap, workflow, db, now, call, hist, starts, storageFailures, initVars>>

\* builder.commit(): new Workflow(config, steps, stepFlow)
Commit ==
    /\ ~workflow.committed
    /\ workflow' = [committed |-> TRUE, config |-> builder.config,
                    steps |-> builder.steps, stepFlow |-> builder.stepFlow]
    /\ UNCHANGED <<request, heap, builder, db, now, call, hist, starts, storageFailures, initVars>>

\* The clock advances.
Tick ==
    /\ now < MaxClock
    /\ now' = now + 1
    /\ UNCHANGED <<request, heap, builder, workflow, db, call, hist, starts, storageFailures, initVars>>

\* The snapshot execute() hands to saveSnapshot.
Snapshot(k, status, result, error) ==
    [runId |-> k.runId,
     workflowId |-> workflow.config.id,
     status |-> status,
     executionPath |-> k.context.executionPath,
     stepResults |-> k.context.stepResults,
     state |-> k.context.state,
     inputData |-> k.validatedInput,
     result |-> result,
     error |-> error,
     timestamp |-> now]

\* A storage operation of call c fails: nothing is written.
StorageFails(c) ==
    /\ storageFailures < MaxStorageFailures
    /\ storageFailures' = storageFailures + 1
    /\ hist' = [hist EXCEPT ![c].storageFailed = TRUE]
    /\ db' = db

\* saveSnapshot(snap) of call c completes.
StorageSaves(c, snap) ==
    /\ db' = saveSnapshot(db, now, snap)
    /\ hist' = [hist EXCEPT ![c].lastWrite = snap,
                             ![c].nWrites = IF c \in Calls THEN @ + 1 ELSE @,
                             ![c].nFailed = IF c \in Calls /\ snap.status = "failed"
                                            THEN @ + 1 ELSE @,
                             ![c].order = Append(SelectSeq(@, LAMBDA x : x # snap.runId),
                                                 snap.runId),
                             ![c].resaved = (hist[c].lastWrite = snap)]
    /\ UNCHANGED storageFailures

\* (await workflow.createRun(runId)).start({ inputData, initialState }):
\* createRun awaits init() of the workflow's storage, whose schema objects
\* exist here; then engine.execute(...) up to its first await: the input is
\* parsed and the execution context is built.
Start(c, runId, inputData, initialState) ==
    /\ workflow.committed
    /\ \/ storage["s1"].initialized
       \/ (storage["s1"].pc = "none" /\ NewObjects \subseteq schema /\ OldTable \notin schema)
    /\ call[c].pc \in {"idle", "returned", "rejected"}
    /\ starts < MaxStarts
    /\ starts' = starts + 1
    /\ hist' = [hist EXCEPT ![c] = [IdleHist EXCEPT !.inputData = inputData]]
    /\ LET validatedInput == Parse(workflow.config.inputSchema, inputData)
       IN  IF validatedInput = Invalid
           THEN call' = [call EXCEPT ![c] =
                    [IdleCall EXCEPT !.pc = "rejected", !.runId = runId,
                                     !.error = ZodError]]
           ELSE call' = [call EXCEPT ![c] =
                    [IdleCall EXCEPT
                       !.pc = "saveInitial",
                       !.runId = runId,
                       !.validatedInput = validatedInput,
                       !.context =
                          [workflowId |-> workflow.config.id,
                           runId |-> runId,
                           executionPath |-> <<>>,
                           stepResults |-> <<>>,
                           state |-> Coalesce(initialState,
                                       IF workflow.config.stateSchema # Undefined
                                       THEN EmptyObj ELSE Undefined),
                           inputData |-> validatedInput]]]
    /\ storage' = IF storage["s1"].initialized THEN storage
                  ELSE [storage EXCEPT !["s1"] = InitializedStorage]
    /\ UNCHANGED <<request, heap, builder, workflow, db, now, storageFailures, schema,
                   legacy, initCall>>

\* `await this.storage.saveSnapshot({... status: "running" ...})` before the
\* try block; then `let currentOutput = validatedInput`.
SaveInitial(c) ==
    LET k == call[c] IN
    /\ k.pc = "saveInitial"
    /\ \/ /\ StorageSaves(c, Snapshot(k, "running", Undefined, Undefined))
          /\ call' = [call EXCEPT ![c].pc = "loop",
                                  ![c].currentOutput = k.validatedInput]
       \/ /\ StorageFails(c)
          /\ call' = [call EXCEPT ![c].pc = "rejected", ![c].error = StorageError]
    /\ UNCHANGED <<request, heap, builder, workflow, now, starts, initVars>>

\* The StepResult executeStep returns, recorded under the step's id:
\* `context.stepResults[entry.step.id] = result`.
Record(k, id, result) ==
    [k EXCEPT !.result = result,
              !.context.stepResults =
                  [x \in DOMAIN k.context.stepResults \cup {id} |->
                      IF x = id THEN result ELSE k.context.stepResults[x]]]

\* Faulty variant of BeginStep: the candidate input is not parsed before the
\* execution function is invoked.
BeginStepUnchecked(c) ==
    LET k == call[c]
        pushed == [k EXCEPT !.context.executionPath = Append(@, k.i)]
    IN
    /\ k.pc = "loop"
    /\ k.i < Len(workflow.stepFlow)
    /\ call' = [call EXCEPT ![c] =
          [pushed EXCEPT !.pc = "inStep",
                         !.timestamp = now,
                         !.stepContext = [inputData |-> k.currentOutput,
                                          state |-> k.context.state]]]
    /\ hist' = [hist EXCEPT
          ![c].fed = Append(@, [step |-> k.i, input |-> k.currentOutput]),
          ![c].invoked = Append(@, k.i)]
    /\ UNCHANGED <<request, heap, builder, workflow, db, now, starts, storageFailures, initVars>>

\* Faulty variant of BeginStep: the execution path is an array of the engine,
\* shared by every execute() call.
BeginStepSharedPath(c) ==
    LET k == call[c]
        step == workflow.stepFlow[k.i + 1].step
        pushed == [k EXCEPT !.context.executionPath = Append(@, k.i)]
        validatedInput == Parse(step.inputSchema, k.currentOutput)
        shared(next) == [x \in Calls |->
                           IF x = c THEN next
                           ELSE [call[x] EXCEPT !.context.executionPath = Append(@, k.i)]]
    IN
    /\ k.pc = "loop"
    /\ k.i < Len(workflow.stepFlow)
    /\ IF validatedInput = Invalid
       THEN /\ call' = shared(
                  [Record(pushed, step.id,
                      [status |-> "failed", error |-> ZodError, timestamp |-> now])
                   EXCEPT !.pc = "saveFailed"])
            /\ hist' = [hist EXCEPT
                  ![c].fed = Append(@, [step |-> k.i, input |-> k.currentOutput]),
                  ![c].recorded = Append(@, [step |-> k.i, id |-> step.id,
                                             status |-> "failed"])]
       ELSE /\ call' = shared(
                  [pushed EXCEPT !.pc = "inStep",
                                 !.timestamp = now,
                                 !.stepContext = [inputData |-> validatedInput,
                                                  state |-> k.context.state]])
            /\ hist' = [hist EXCEPT
                  ![c].fed = Append(@, [step |-> k.i, input |-> k.currentOutput]),
                  ![c].invoked = Append(@, k.i)]
    /\ UNCHANGED <<request, heap, builder, workflow, db, now, starts, storageFailures, initVars>>

\* Loop head with i < stepFlow.length: `context.executionPath.push(i)`, then
\* executeStep up to `await step.execute(stepContext)`: the candidate input
\* is parsed; when it is invalid the catch returns a failed StepResult.
BeginStep(c) ==
    LET k == call[c]
        step == workflow.stepFlow[k.i + 1].step
        pushed == [k EXCEPT !.context.executionPath = Append(@, k.i)]
        validatedInput == Parse(step.inputSchema, k.currentOutput)
    IN
    /\ k.pc = "loop"
    /\ k.i < Len(workflow.stepFlow)
    /\ IF validatedInput = Invalid
       THEN /\ call' = [call EXCEPT ![c] =
                  [Record(pushed, step.id,
                      [status |-> "failed", error |-> ZodError, timestamp |-> now])
                   EXCEPT !.pc = "saveFailed"]]
            /\ hist' = [hist EXCEPT
                  ![c].fed = Append(@, [step |-> k.i, input |-> k.currentOutput]),
                  ![c].recorded = Append(@, [step |-> k.i, id |-> step.id,
                                             status |-> "failed"])]
       ELSE /\ call' = [call EXCEPT ![c] =
                  [pushed EXCEPT !.pc = "inStep",
                                 !.timestamp = now,
                                 !.stepContext = [inputData |-> validatedInput,
                                                  state |-> k.context.state]]]
            /\ hist' = [hist EXCEPT
                  ![c].fed = Append(@, [step |-> k.i, input |-> k.currentOutput]),
                  ![c].invoked = Append(@, k.i)]
    /\ UNCHANGED <<request, heap, builder, workflow, db, now, starts, storageFailures, initVars>>

\* Faulty variant of SetState: the setter changes the step's own context object,
\* not the shared execution context.
SetStateLocal(c, newState) ==
    LET k == call[c] IN
    /\ k.pc = "inStep"
    /\ call' = [call EXCEPT ![c].stepContext.state = newState]
    /\ hist' = [hist EXCEPT ![c].lastSet = [step |-> k.i, value |-> newState]]
    /\ UNCHANGED <<request, heap, builder, workflow, db, now, starts, storageFailures, initVars>>

\* Faulty variant of SetState: the setter also changes the state field of the
\* running step's own context.
SetStateVisible(c, newState) ==
    LET k == call[c] IN
    /\ k.pc = "inStep"
    /\ call' = [call EXCEPT ![c].context.state = newState,
                            ![c].stepContext.state = newState]
    /\ hist' = [hist EXCEPT ![c].lastSet = [step |-> k.i, value |-> newState]]
    /\ UNCHANGED <<request, heap, builder, workflow, db, now, starts, storageFailures,
                   initVars>>

\* Inside step.execute: `setState(newState)` sets context.state.
SetState(c, newState) ==
    LET k == call[c] IN
    /\ k.pc = "inStep"
    /\ call' = [call EXCEPT ![c].context.state = newState]
    /\ hist' = [hist EXCEPT ![c].lastSet = [step |-> k.i, value |-> newState]]
    /\ UNCHANGED <<request, heap, builder, workflow, db, now, starts, storageFailures, initVars>>

\* Faulty variant of GetInitData: the getter returns the step's own input.
GetInitDataOfStep(c) ==
    LET k == call[c] IN
    /\ k.pc = "inStep"
    /\ hist' = [hist EXCEPT ![c].lastInit =
                   [step |-> k.i, value |-> k.stepContext.inputData]]
    /\ UNCHANGED <<request, heap, builder, workflow, db, now, call, starts, storageFailures, initVars>>

\* Inside step.execute: `getInitData()` is `() => context.inputData`.
GetInitData(c) ==
    LET k == call[c] IN
    /\ k.pc = "inStep"
    /\ hist' = [hist EXCEPT ![c].lastInit =
                   [step |-> k.i, value |-> k.context.inputData]]
    /\ UNCHANGED <<request, heap, builder, workflow, db, now, call, starts, storageFailures, initVars>>

\* The errors getStepResult throws.
NotExecutedYet == ErrorObj("has not been executed yet")
NotSuccessful == ErrorObj("did not complete successfully")
LookupErrors == {NotExecutedYet, NotSuccessful}
Thrown == "<thrown>"

\* Faulty variant of GetStepResult: `result.output` is returned without looking
\* at the result first.
GetStepResultUnchecked(c, id, caught) ==
    LET k == call[c]
        found == id \in DOMAIN k.context.stepResults
        output == IF found /\ k.context.stepResults[id].status = "success"
                  THEN k.context.stepResults[id].output ELSE Undefined
    IN
    /\ k.pc = "inStep"
    /\ call' = call
    /\ hist' = [hist EXCEPT ![c].lastLookup =
          [step |-> k.i, id |-> id, outcome |-> output, caught |-> caught]]
    /\ UNCHANGED <<request, heap, builder, workflow, db, now, starts, storageFailures, initVars>>

\* Inside step.execute: `getStepResult(targetStep)` reads
\* context.stepResults[targetStep.id]; it returns the output of a success
\* result and throws otherwise.  The execution function catches the error
\* and goes on, or lets it escape, and then executeStep's catch returns a
\* failed StepResult with it.
GetStepResult(c, id, caught) ==
    LET k == call[c]
        step == workflow.stepFlow[k.i + 1].step
        found == id \in DOMAIN k.context.stepResults
        error == IF ~found THEN NotExecutedYet ELSE NotSuccessful
        returns == found /\ k.context.stepResults[id].status = "success"
    IN
    /\ k.pc = "inStep"
    /\ IF returns
       THEN /\ ~caught
            /\ call' = call
            /\ hist' = [hist EXCEPT ![c].lastLookup =
                  [step |-> k.i, id |-> id,
                   outcome |-> k.context.stepResults[id].output, caught |-> FALSE]]
       ELSE IF caught
       THEN /\ call' = call
            /\ hist' = [hist EXCEPT ![c].lastLookup =
                  [step |-> k.i, id |-> id, outcome |-> Thrown, caught |-> TRUE]]
       ELSE /\ call' = [call EXCEPT ![c] =
                  [Record(k, step.id,
                      [status |-> "failed", error |-> error,
                       timestamp |-> k.timestamp])
                   EXCEPT !.pc = "saveFailed"]]
            /\ hist' = [hist EXCEPT
                  ![c].lastLookup =
                      [step |-> k.i, id |-> id, outcome |-> Thrown, caught |-> FALSE],
                  ![c].recorded =
                      Append(@, [step |-> k.i, id |-> step.id, status |-> "failed"])]
    /\ UNCHANGED <<request, heap, builder, workflow, db, now, starts, storageFailures, initVars>>

\* Faulty variant of StepReturns: the returned value is recorded as the step's
\* output without being parsed.
StepReturnsUnvalidated(c, output) ==
    LET k == call[c]
        step == workflow.stepFlow[k.i + 1].step
    IN
    /\ k.pc = "inStep"
    /\ call' = [call EXCEPT ![c] =
          [Record(k, step.id,
              [status |-> "success", output |-> output, timestamp |-> k.timestamp])
           EXCEPT !.pc = "saveProgress", !.currentOutput = output]]
    /\ hist' = [hist EXCEPT ![c].recorded =
          Append(@, [step |-> k.i, id |-> step.id, status |-> "success"])]
    /\ UNCHANGED <<request, heap, builder, workflow, db, now, starts, storageFailures, initVars>>

\* Faulty variant of StepReturns: the value handed on is the one the function
\* returned, not the parsed one recorded in the result.
StepReturnsThreadsRaw(c, output) ==
    LET k == call[c]
        step == workflow.stepFlow[k.i + 1].step
        validatedOutput == Parse(step.outputSchema, output)
    IN
    /\ k.pc = "inStep"
    /\ IF validatedOutput = Invalid
       THEN call' = [call EXCEPT ![c] =
               [Record(k, step.id,
                   [status |-> "failed", error |-> ZodError,
                    timestamp |-> k.timestamp])
                EXCEPT !.pc = "saveFailed"]]
       ELSE call' = [call EXCEPT ![c] =
               [Record(k, step.id,
                   [status |-> "success", output |-> validatedOutput,
                    timestamp |-> k.timestamp])
                EXCEPT !.pc = "saveProgress", !.currentOutput = output]]
    /\ hist' = [hist EXCEPT ![c].recorded =
          Append(@, [step |-> k.i, id |-> step.id,
                     status |-> IF validatedOutput = Invalid THEN "failed"
                                ELSE "success"])]
    /\ UNCHANGED <<request, heap, builder, workflow, db, now, starts, storageFailures, initVars>>

\* step.execute returns output: the output is parsed, the result is recorded.
StepReturns(c, output) ==
    LET k == call[c]
        step == workflow.stepFlow[k.i + 1].step
        validatedOutput == Parse(step.outputSchema, output)
    IN
    /\ k.pc = "inStep"
    /\ IF validatedOutput = Invalid
       THEN call' = [call EXCEPT ![c] =
               [Record(k, step.id,
                   [status |-> "failed", error |-> ZodError,
                    timestamp |-> k.timestamp])
                EXCEPT !.pc = "saveFailed"]]
       ELSE call' = [call EXCEPT ![c] =
               [Record(k, step.id,
                   [status |-> "success", output |-> validatedOutput,
                    timestamp |-> k.timestamp])
                EXCEPT !.pc = "saveProgress", !.currentOutput = validatedOutput]]
    /\ hist' = [hist EXCEPT ![c].recorded =
          Append(@, [step |-> k.i, id |-> step.id,
                     status |-> IF validatedOutput = Invalid THEN "failed"
                                ELSE "success"])]
    /\ UNCHANGED <<request, heap, builder, workflow, db, now, starts, storageFailures, initVars>>

\* step.execute throws e: the catch of executeStep returns a failed result.
StepThrows(c, e) ==
    LET k == call[c]
        step == workflow.stepFlow[k.i + 1].step
    IN
    /\ k.pc = "inStep"
    /\ call' = [call EXCEPT ![c] =
          [Record(k, step.id,
              [status |-> "failed", error |-> NormalizeError(e),
               timestamp |-> k.timestamp])
           EXCEPT !.pc = "saveFailed"]]
    /\ hist' = [hist EXCEPT ![c].recorded =
          Append(@, [step |-> k.i, id |-> step.id, status |-> "failed"])]
    /\ UNCHANGED <<request, heap, builder, workflow, db, now, starts, storageFailures, initVars>>

\* Faulty variant of SaveFailed: the failed snapshot is saved but the error is not
\* thrown, and the loop goes on with the next step.
SaveFailedContinues(c) ==
    LET k == call[c] IN
    /\ k.pc = "saveFailed"
    /\ \/ /\ StorageSaves(c, Snapshot(k, "failed", Undefined, k.result.error.message))
          /\ call' = [call EXCEPT ![c].pc = "loop", ![c].i = k.i + 1]
       \/ /\ StorageFails(c)
          /\ call' = [call EXCEPT ![c].pc = "saveCatch", ![c].error = StorageError]
    /\ UNCHANGED <<request, heap, builder, workflow, now, starts, initVars>>

\* `if (result.status === "failed")`: the failed snapshot is saved, then
\* `throw result.error` enters the catch block of execute().
SaveFailed(c) ==
    LET k == call[c] IN
    /\ k.pc = "saveFailed"
    /\ \/ /\ StorageSaves(c, Snapshot(k, "failed", Undefined, k.result.error.message))
          /\ call' = [call EXCEPT ![c].pc = "saveCatch", ![c].error = k.result.error]
       \/ /\ StorageFails(c)
          /\ call' = [call EXCEPT ![c].pc = "saveCatch", ![c].error = StorageError]
    /\ UNCHANGED <<request, heap, builder, workflow, now, starts, initVars>>

\* Faulty variant of SaveProgress: the loop goes on without saving.
SaveProgressDeferred(c) ==
    LET k == call[c] IN
    /\ k.pc = "saveProgress"
    /\ call' = [call EXCEPT ![c].pc = "loop", ![c].i = k.i + 1]
    /\ UNCHANGED <<request, heap, builder, workflow, db, now, hist, starts, storageFailures,
                   initVars>>

\* Faulty variant of SaveProgress: the loop index advances by two.
SaveProgressSkips(c) ==
    LET k == call[c] IN
    /\ k.pc = "saveProgress"
    /\ \/ /\ StorageSaves(c, Snapshot(k, "running", Undefined, Undefined))
          /\ call' = [call EXCEPT ![c].pc = "loop", ![c].i = k.i + 2]
       \/ /\ StorageFails(c)
          /\ call' = [call EXCEPT ![c].pc = "saveCatch", ![c].error = StorageError]
    /\ UNCHANGED <<request, heap, builder, workflow, now, starts, initVars>>

\* "Save progress after each step", then `i++`.
SaveProgress(c) ==
    LET k == call[c] IN
    /\ k.pc = "saveProgress"
    /\ \/ /\ StorageSaves(c, Snapshot(k, "running", Undefined, Undefined))
          /\ call' = [call EXCEPT ![c].pc = "loop", ![c].i = k.i + 1]
       \/ /\ StorageFails(c)
          /\ call' = [call EXCEPT ![c].pc = "saveCatch", ![c].error = StorageError]
    /\ UNCHANGED <<request, heap, builder, workflow, now, starts, initVars>>

\* Faulty variant of FinishLoop: the last output is returned without being
\* parsed with the workflow's output schema.
FinishLoopUnvalidated(c) ==
    LET k == call[c] IN
    /\ k.pc = "loop"
    /\ k.i >= Len(workflow.stepFlow)
    /\ call' = [call EXCEPT ![c].pc = "saveSuccess", ![c].returned = k.currentOutput]
    /\ UNCHANGED <<request, heap, builder, workflow, db, now, hist, starts, storageFailures, initVars>>

\* Faulty variant of FinishLoop: a run in which no step was executed is an
\* error.
FinishLoopNeedsStep(c) ==
    LET k == call[c]
        validatedOutput == Parse(workflow.config.outputSchema, k.currentOutput)
    IN
    /\ k.pc = "loop"
    /\ k.i >= Len(workflow.stepFlow)
    /\ IF validatedOutput = Invalid
       THEN call' = [call EXCEPT ![c].pc = "saveCatch", ![c].error = ZodError]
       ELSE IF k.context.executionPath = <<>>
       THEN call' = [call EXCEPT ![c].pc = "saveCatch", ![c].error = ErrorObj("no steps")]
       ELSE call' = [call EXCEPT ![c].pc = "saveSuccess",
                                 ![c].returned = validatedOutput]
    /\ UNCHANGED <<request, heap, builder, workflow, db, now, hist, starts,
                   storageFailures, initVars>>

\* Loop head with i = stepFlow.length: `workflow.outputSchema.parse(currentOutput)`.
FinishLoop(c) ==
    LET k == call[c]
        validatedOutput == Parse(workflow.config.outputSchema, k.currentOutput)
    IN
    /\ k.pc = "loop"
    /\ k.i >= Len(workflow.stepFlow)
    /\ IF validatedOutput = Invalid
       THEN call' = [call EXCEPT ![c].pc = "saveCatch", ![c].error = ZodError]
       ELSE call' = [call EXCEPT ![c].pc = "saveSuccess",
                                 ![c].returned = validatedOutput]
    /\ UNCHANGED <<request, heap, builder, workflow, db, now, hist, starts, storageFailures, initVars>>

\* "Save success state", then `return validatedOutput`.
SaveSuccess(c) ==
    LET k == call[c] IN
    /\ k.pc = "saveSuccess"
    /\ \/ /\ StorageSaves(c, Snapshot(k, "success", k.returned, Undefined))
          /\ call' = [call EXCEPT ![c].pc = "returned"]
       \/ /\ StorageFails(c)
          /\ call' = [call EXCEPT ![c].pc = "saveCatch", ![c].error = StorageError,
                                  ![c].returned = Undefined]
    /\ UNCHANGED <<request, heap, builder, workflow, now, starts, initVars>>

\* The catch block of execute(): a failed snapshot is saved, then `throw error`.
SaveCatch(c) ==
    LET k == call[c] IN
    /\ k.pc = "saveCatch"
    /\ \/ /\ StorageSaves(c, Snapshot(k, "failed", Undefined, ErrorMessage(k.error)))
          /\ call' = [call EXCEPT ![c].pc = "rejected"]
       \/ /\ StorageFails(c)
          /\ call' = [call EXCEPT ![c].pc = "rejected", ![c].error = StorageError]
    /\ UNCHANGED <<request, heap, builder, workflow, now, starts, initVars>>

InitialStates == {Undefined, "0"}

Next ==
    \/ \E step \in StepDefs : Then(step)
    \/ Commit
    \/ Tick
    \/ \E inputData \in Numbers, initialState \in InitialStates :
          Start("c1", "r1", inputData, initialState)
    \/ \E c \in Calls : SaveInitial(c)
    \/ \E c \in Calls : BeginStep(c)
    \/ \E c \in Calls, newState \in Numbers : SetState(c, newState)
    \/ \E c \in Calls, id \in StepIds, caught \in BOOLEAN : GetStepResult(c, id, caught)
    \/ \E c \in Calls, output \in Numbers : StepReturns(c, output)
    \/ \E c \in Calls, e \in Throwables : StepThrows(c, e)
    \/ \E c \in Calls : SaveFailed(c)
    \/ \E c \in Calls : SaveProgress(c)
    \/ \E c \in Calls : FinishLoop(c)
    \/ \E c \in Calls : SaveSuccess(c)
    \/ \E c \in Calls : SaveCatch(c)

Spec == Init /\ [][Next]_vars

\* ------------------------------------------------- storage used directly
\* WorkflowStorage is exported: saveSnapshot and deleteRun called directly,
\* with snapshots drawn from ApiSnapshots.
ApiSnapshot(runId, workflowId, status, state, result) ==
    [runId |-> runId,
     workflowId |-> workflowId,
     status |-> status,
     executionPath |-> IF status = "running" THEN <<>> ELSE <<0>>,
     stepResults |->
        CASE status = "running" -> <<>>
          [] status = "failed" ->
                ("a" :> [status |-> "failed", error |-> ErrorObj("boom"), timestamp |-> 0])
          [] status = "success" ->
                ("a" :> [status |-> "success", output |-> "1", timestamp |-> 0]),
     state |-> state,
     inputData |-> IF workflowId = "wf1" THEN "0" ELSE "1",
     result |-> result,
     error |-> IF status = "failed" THEN "boom" ELSE Undefined,
     timestamp |-> 0]

ApiSnapshots ==
    {ApiSnapshot(r, w, st, state, result) :
        r \in RunIds, w \in WorkflowIds, st \in Statuses,
        state \in {Undefined, "1"}, result \in {Undefined} \cup Numbers}

\* storage.saveSnapshot(snapshot)
SaveSnapshotCall(snapshot) ==
    /\ snapshot.status = "success" \/ snapshot.result = Undefined
    /\ StorageSaves("api", snapshot)
    /\ UNCHANGED <<request, heap, builder, workflow, now, call, starts, initVars>>

\* storage.deleteRun(runId)
DeleteRunCall(runId) ==
    /\ db' = deleteRun(db, runId)
    /\ hist' = [hist EXCEPT !["api"].lastWrite = NoWrite, !["api"].resaved = FALSE,
                             !["api"].order = SelectSeq(@, LAMBDA x : x # runId)]
    /\ UNCHANGED <<request, heap, builder, workflow, now, call, starts, storageFailures, initVars>>

InitStore ==
    /\ Init
    /\ builder.config = [id |-> "wf1", inputSchema |-> "nonzero",
                         outputSchema |-> "any", stateSchema |-> Undefined]

NextStore ==
    \/ \E snapshot \in ApiSnapshots : SaveSnapshotCall(snapshot)
    \/ \E runId \in RunIds : DeleteRunCall(runId)
    \/ Tick

SpecStore == InitStore /\ [][NextStore]_vars

\* ------------------------------------------------------- concurrent runs
\* start() calls in progress at once on runs of one committed workflow,
\* the run ids being what createRun(runId) was given.  The steps have
\* deterministic, side-effect-free execution functions: what step.execute
\* does with a validated input.
Execute(id, inputData) ==
    CASE id = "a" -> IF inputData = "0"
                     THEN [status |-> "throws", error |-> ErrorObj("boom")]
                     ELSE [status |-> "returns", output |-> inputData]
      [] id = "b" -> IF inputData = "1"
                     THEN [status |-> "returns", output |-> "0"]
                     ELSE [status |-> "throws", error |-> ThrownString("oops")]

\* Faulty variant of StepExecutes: the step context is one object of the engine,
\* which the latest executeStep of the first call has filled.
StepExecutesSharedContext(c) ==
    LET k == call[c]
        step == workflow.stepFlow[k.i + 1].step
        r == Execute(step.id, call["c1"].stepContext.inputData)
    IN
    /\ k.pc = "inStep"
    /\ IF r.status = "throws" THEN StepThrows(c, r.error) ELSE StepReturns(c, r.output)

\* `await step.execute(stepContext)` with such a function.
StepExecutes(c) ==
    LET k == call[c]
        step == workflow.stepFlow[k.i + 1].step
        r == Execute(step.id, k.stepContext.inputData)
    IN
    /\ k.pc = "inStep"
    /\ IF r.status = "throws" THEN StepThrows(c, r.error) ELSE StepReturns(c, r.output)

\* The step flows a builder can be driven to: every sequence of at most
\* MaxSteps of the steps.
RECURSIVE thenAll(_, _)
thenAll(b, steps) ==
    IF steps = <<>> THEN b ELSE thenAll(then(b, Head(steps)), Tail(steps))
StepSeqs == UNION {[1..n -> StepDefs] : n \in 0..MaxSteps}
ConcConfigs == [id : {"wf1"}, inputSchema : {"any", "nonzero"},
                outputSchema : {"any"}, stateSchema : {Undefined}]

\* After createWorkflow(config).then(...).commit(); storage operations
\* do not fail here.
InitConc ==
    /\ \E config \in ConcConfigs, steps \in StepSeqs :
          builder = thenAll(createWorkflow(config), steps)
    /\ workflow = [committed |-> TRUE, config |-> builder.config,
                   steps |-> builder.steps, stepFlow |-> builder.stepFlow]
    /\ db = <<>>
    /\ now = 0
    /\ request = NoRequest
    /\ heap = NoHeap
    /\ call = [c \in Calls |-> IdleCall]
    /\ hist = [c \in Writers |-> IdleHist]
    /\ starts = 0
    /\ storageFailures = MaxStorageFailures
    /\ schema = NewObjects
    /\ legacy = <<>>
    /\ storage = [s \in Storages |-> NewStorage]
    /\ initCall = [i \in InitCallers |-> IdleInitCall]

NextConc ==
    \/ Tick
    \/ \E c \in Calls, runId \in RunIds, inputData \in Numbers :
          Start(c, runId, inputData, Undefined)
    \/ \E c \in Calls : SaveInitial(c)
    \/ \E c \in Calls : BeginStep(c)
    \/ \E c \in Calls : StepExecutes(c)
    \/ \E c \in Calls : SaveFailed(c)
    \/ \E c \in Calls : SaveProgress(c)
    \/ \E c \in Calls : FinishLoop(c)
    \/ \E c \in Calls : SaveSuccess(c)
    \/ \E c \in Calls : SaveCatch(c)

SpecConc == InitConc /\ [][NextConc]_vars

\* The continuation of an await runs once the awaited promise has settled:
\* storage operations complete and execution functions terminate.
EngineStep(c) ==
    \/ SaveInitial(c) \/ BeginStep(c) \/ StepExecutes(c) \/ SaveFailed(c)
    \/ SaveProgress(c) \/ FinishLoop(c) \/ SaveSuccess(c) \/ SaveCatch(c)

SpecLive == SpecConc /\ \A c \in Calls : WF_vars(EngineStep(c))

\* ------------------------------------------------- storage initialization
\* What init() calls leave alone.
engineVars == <<request, heap, builder, workflow, now, call, hist, starts>>

\* Faulty variant of CallInit: init() does not look at initPromise and starts the
\* body whenever the instance is not initialized.
CallInitUnguarded(i, s) ==
    /\ initCall[i].pc = "idle"
    /\ IF storage[s].initialized
       THEN /\ initCall' = [initCall EXCEPT ![i].pc = "resolved", ![i].storage = s]
            /\ storage' = storage
       ELSE /\ initCall' = [initCall EXCEPT ![i].pc = "waiting", ![i].storage = s]
            /\ storage' = [storage EXCEPT ![s].initPromise = "pending",
                                          ![s].pc = "import"]
    /\ UNCHANGED <<engineVars, db, storageFailures, schema, legacy>>

\* Faulty variant of CallInit: a rejected initPromise is discarded and the body is
\* started again.
CallInitRetries(i, s) ==
    /\ initCall[i].pc = "idle"
    /\ IF storage[s].initialized
       THEN /\ initCall' = [initCall EXCEPT ![i].pc = "resolved", ![i].storage = s]
            /\ storage' = storage
       ELSE /\ initCall' = [initCall EXCEPT ![i].pc = "waiting", ![i].storage = s]
            /\ storage' = IF storage[s].initPromise \in {"pending", "fulfilled"} THEN storage
                          ELSE [storage EXCEPT ![s].initPromise = "pending",
                                               ![s].pc = "import"]
    /\ UNCHANGED <<engineVars, db, storageFailures, schema, legacy>>

\* storage.init() is called: it returns at once when the instance is
\* initialized, returns the pending (or settled) initPromise when there is
\* one, and otherwise starts the async body and returns its promise.
CallInit(i, s) ==
    /\ initCall[i].pc = "idle"
    /\ IF storage[s].initialized
       THEN /\ initCall' = [initCall EXCEPT ![i].pc = "resolved", ![i].storage = s]
            /\ storage' = storage
       ELSE /\ initCall' = [initCall EXCEPT ![i].pc = "waiting", ![i].storage = s]
            /\ storage' = IF storage[s].initPromise # "null" THEN storage
                          ELSE [storage EXCEPT ![s].initPromise = "pending",
                                               ![s].pc = "import"]
    /\ UNCHANGED <<engineVars, db, storageFailures, schema, legacy>>

\* The promise an init() call awaits has settled: the call resolves, or
\* rejects with the error of the body.
InitSettles(i) ==
    LET s == initCall[i].storage IN
    /\ initCall[i].pc = "waiting"
    /\ storage[s].initPromise \in {"fulfilled", "rejected"}
    /\ initCall' = [initCall EXCEPT
          ![i].pc = IF storage[s].initPromise = "fulfilled" THEN "resolved" ELSE "rejected",
          ![i].error = storage[s].error]
    /\ UNCHANGED <<engineVars, db, storageFailures, schema, legacy, storage>>

\* `await import(".../std/sqlite")` in init() and in migrateWorkflowRunsTable.
ImportSqlite(s) ==
    /\ storage[s].pc = "import"
    /\ storage' = [storage EXCEPT ![s].pc = "tableCheck"]
    /\ UNCHANGED <<engineVars, db, storageFailures, schema, legacy, initCall>>

\* The body of instance s throws e: its promise rejects, initialized stays false.
InitFails(s, e) ==
    storage' = [storage EXCEPT ![s].initPromise = "rejected", ![s].pc = "failed",
                               ![s].error = e]

\* A statement of the body fails in the database.
InitStatementFails(s) ==
    /\ storage[s].pc \notin {"none", "import", "done", "failed"}
    /\ storageFailures < MaxStorageFailures
    /\ storageFailures' = storageFailures + 1
    /\ InitFails(s, StorageError)
    /\ UNCHANGED <<engineVars, db, schema, legacy, initCall>>

\* SELECT name FROM sqlite_master ..., and the three early decisions.
TableCheck(s) ==
    LET oldTableExists == OldTable \in schema
        newTableExists == NewTable \in schema
    IN
    /\ storage[s].pc = "tableCheck"
    /\ storage' = [storage EXCEPT
          ![s].oldTableExists = oldTableExists,
          ![s].newTableExists = newTableExists,
          ![s].pc = IF newTableExists /\ ~oldTableExists THEN "initCreateTable"
                    ELSE IF ~oldTableExists THEN "initCreateTable"
                    ELSE IF ~newTableExists THEN "migCreateTable"
                    ELSE "migCount"]
    /\ UNCHANGED <<engineVars, db, storageFailures, schema, legacy, initCall>>

\* `if (!newTableExists)`: CREATE TABLE wrkflw_workflow_runs (...).
MigCreateTable(s) ==
    /\ storage[s].pc = "migCreateTable"
    /\ IF NewTable \in schema
       THEN /\ InitFails(s, AlreadyExists)
            /\ schema' = schema
       ELSE /\ schema' = schema \cup {NewTable}
            /\ storage' = [storage EXCEPT ![s].pc = "migIndex1"]
    /\ UNCHANGED <<engineVars, db, storageFailures, legacy, initCall>>

\* CREATE INDEX IF NOT EXISTS index ON wrkflw_workflow_runs(...)
CreateIndex(s, pc, index, then_pc) ==
    /\ storage[s].pc = pc
    /\ schema' = schema \cup {index}
    /\ storage' = [storage EXCEPT ![s].pc = then_pc]
    /\ UNCHANGED <<engineVars, db, storageFailures, legacy, initCall>>

MigCreateIndexes(s) ==
    \/ CreateIndex(s, "migIndex1", WorkflowIdIndex, "migIndex2")
    \/ CreateIndex(s, "migIndex2", StatusIndex, "migCount")

\* SELECT COUNT(*) FROM workflow_runs
MigCount(s) ==
    LET rowCount == Cardinality(DOMAIN legacy) IN
    /\ storage[s].pc = "migCount"
    /\ storage' = [storage EXCEPT
          ![s].rowCount = rowCount,
          ![s].pc = IF rowCount > 0 THEN "migCopy" ELSE "initCreateTable"]
    /\ UNCHANGED <<engineVars, db, storageFailures, schema, legacy, initCall>>

\* Faulty variant of MigCopy: INSERT OR REPLACE.
MigCopyReplacing(s) ==
    /\ storage[s].pc = "migCopy"
    /\ db' = [r \in DOMAIN db \cup DOMAIN legacy |->
                IF r \in DOMAIN legacy THEN legacy[r] ELSE db[r]]
    /\ storage' = [storage EXCEPT ![s].copied = TRUE, ![s].pc = "initCreateTable"]
    /\ UNCHANGED <<engineVars, storageFailures, schema, legacy, initCall>>

\* INSERT OR IGNORE INTO wrkflw_workflow_runs (...) SELECT ... FROM workflow_runs;
\* migrateWorkflowRunsTable(false) and runMigrations return.
MigCopy(s) ==
    /\ storage[s].pc = "migCopy"
    /\ db' = [r \in DOMAIN db \cup DOMAIN legacy |->
                IF r \in DOMAIN db THEN db[r] ELSE legacy[r]]
    /\ storage' = [storage EXCEPT ![s].copied = TRUE, ![s].pc = "initCreateTable"]
    /\ UNCHANGED <<engineVars, storageFailures, schema, legacy, initCall>>

\* CREATE TABLE IF NOT EXISTS wrkflw_workflow_runs (...) in init().
InitCreateTable(s) ==
    /\ storage[s].pc = "initCreateTable"
    /\ schema' = schema \cup {NewTable}
    /\ storage' = [storage EXCEPT ![s].pc = "initIndex1"]
    /\ UNCHANGED <<engineVars, db, storageFailures, legacy, initCall>>

\* The two CREATE INDEX IF NOT EXISTS of init(); after the second,
\* `this.initialized = true` and the promise is fulfilled.
InitCreateIndexes(s) ==
    \/ CreateIndex(s, "initIndex1", WorkflowIdIndex, "initIndex2")
    \/ /\ storage[s].pc = "initIndex2"
       /\ schema' = schema \cup {StatusIndex}
       /\ storage' = [storage EXCEPT ![s].pc = "done", ![s].initialized = TRUE,
                                     ![s].initPromise = "fulfilled"]
       /\ UNCHANGED <<engineVars, db, storageFailures, legacy, initCall>>

\* A row of the table of an earlier version.
LegacyRow ==
    [workflow_id |-> "wf1", status |-> "success", execution_path |-> <<0>>,
     step_results |-> <<>>, state |-> SqlNull, input_data |-> "1",
     result |-> "1", error |-> SqlNull, created_at |-> 0, updated_at |-> 0]

\* A row that this version wrote to wrkflw_workflow_runs.
ExistingRow ==
    [workflow_id |-> "wf1", status |-> "failed", execution_path |-> <<0>>,
     step_results |-> <<>>, state |-> SqlNull, input_data |-> "1",
     result |-> SqlNull, error |-> "boom", created_at |-> 0, updated_at |-> 1]

\* What the old table can hold.
LegacyTables == {<<>>, "r1" :> LegacyRow, [r \in RunIds |-> LegacyRow]}

\* The database before any init() of this process: empty, or left by an
\* earlier version (the old table, with or without rows), or already set up.
InitialSchemas == {{}, {OldTable}, NewObjects, NewObjects \cup {OldTable}}

InitSchema ==
    /\ builder = createWorkflow([id |-> "wf1", inputSchema |-> "nonzero",
                                 outputSchema |-> "any", stateSchema |-> Undefined])
    /\ workflow = [committed |-> FALSE]
    /\ schema \in InitialSchemas
    /\ legacy \in IF OldTable \in schema THEN LegacyTables ELSE {<<>>}
    /\ db \in IF NewTable \in schema THEN {<<>>, "r1" :> ExistingRow} ELSE {<<>>}
    /\ now = 0
    /\ request = NoRequest
    /\ heap = NoHeap
    /\ call = [c \in Calls |-> IdleCall]
    /\ hist = [c \in Writers |-> IdleHist]
    /\ starts = 0
    /\ storageFailures = 0
    /\ storage = [s \in Storages |-> NewStorage]
    /\ initCall = [i \in InitCallers |-> IdleInitCall]

NextInit ==
    \/ \E i \in InitCallers, s \in Storages : CallInit(i, s)
    \/ \E i \in InitCallers : InitSettles(i)
    \/ \E s \in Storages : ImportSqlite(s)
    \/ \E s \in Storages : InitStatementFails(s)
    \/ \E s \in Storages : TableCheck(s)
    \/ \E s \in Storages : MigCreateTable(s)
    \/ \E s \in Storages : MigCreateIndexes(s)
    \/ \E s \in Storages : MigCount(s)
    \/ \E s \in Storages : MigCopy(s)
    \/ \E s \in Storages : InitCreateTable(s)
    \/ \E s \in Storages : InitCreateIndexes(s)

SpecInit == InitSchema /\ [][NextInit]_vars

\* ------------------------------------------------ createRun after init()
\* init() calls on the storage instances, s1 being the one the committed
\* workflow owns, and createRun(...).start(...) on that workflow.
InitCreate ==
    /\ \E steps \in StepSeqs :
          builder = thenAll(createWorkflow(
                       [id |-> "wf1", inputSchema |-> "nonzero", outputSchema |-> "any",
                        stateSchema |-> Undefined]), steps)
    /\ workflow = [committed |-> TRUE, config |-> builder.config,
                   steps |-> builder.steps, stepFlow |-> builder.stepFlow]
    /\ schema \in InitialSchemas
    /\ legacy \in IF OldTable \in schema THEN {<<>>, "r1" :> LegacyRow} ELSE {<<>>}
    /\ db = <<>>
    /\ now = 0
    /\ request = NoRequest
    /\ heap = NoHeap
    /\ call = [c \in Calls |-> IdleCall]
    /\ hist = [c \in Writers |-> IdleHist]
    /\ starts = 0
    /\ storageFailures = 0
    /\ storage = [s \in Storages |-> NewStorage]
    /\ initCall = [i \in InitCallers |-> IdleInitCall]

NextCreate ==
    \/ NextInit
    \/ \E inputData \in Numbers : Start("c1", "r2", inputData, Undefined)

SpecCreate == InitCreate /\ [][NextCreate]_vars

\* ------------------------------------------------------ every operation
\* Runs of a committed workflow, deleteRun, and init() of a second
\* WorkflowStorage, on a database that the workflow's own init() has set
\* up and migrated, the old table being preserved.
InitOps ==
    /\ builder = thenAll(createWorkflow(
                     [id |-> "wf1", inputSchema |-> "any", outputSchema |-> "any",
                      stateSchema |-> Undefined]),
                  <<CHOOSE x \in StepDefs : x.id = "a", CHOOSE x \in StepDefs : x.id = "b">>)
    /\ workflow = [committed |-> TRUE, config |-> builder.config,
                   steps |-> builder.steps, stepFlow |-> builder.stepFlow]
    /\ db = "r1" :> LegacyRow
    /\ now = 0
    /\ request = NoRequest
    /\ heap = NoHeap
    /\ call = [c \in Calls |-> IdleCall]
    /\ hist = [c \in Writers |-> IdleHist]
    /\ starts = 0
    /\ storageFailures = MaxStorageFailures
    /\ schema = SchemaObjects
    /\ legacy = "r1" :> LegacyRow
    /\ storage = [s \in Storages |->
                    IF s = "s1" THEN [InitializedStorage EXCEPT !.copied = TRUE]
                    ELSE NewStorage]
    /\ initCall = [i \in InitCallers |-> IdleInitCall]

NextOps ==
    \/ \E runId \in RunIds, inputData \in Numbers : Start("c1", runId, inputData, Undefined)
    \/ \E c \in Calls : SaveInitial(c)
    \/ \E c \in Calls : BeginStep(c)
    \/ \E c \in Calls : StepExecutes(c)
    \/ \E c \in Calls : SaveFailed(c)
    \/ \E c \in Calls : SaveProgress(c)
    \/ \E c \in Calls : FinishLoop(c)
    \/ \E c \in Calls : SaveSuccess(c)
    \/ \E c \in Calls : SaveCatch(c)
    \/ \E runId \in RunIds : DeleteRunCall(runId)
    \/ CallInit("i1", "s2")
    \/ \E i \in InitCallers : InitSettles(i)
    \/ \E s \in Storages : ImportSqlite(s)
    \/ \E s \in Storages : TableCheck(s)
    \/ \E s \in Storages : MigCount(s)
    \/ \E s \in Storages : MigCopy(s)
    \/ \E s \in Storages : InitCreateTable(s)
    \/ \E s \in Storages : InitCreateIndexes(s)

SpecOps == InitOps /\ [][NextOps]_vars

\* ------------------------------------------------------- the step context
\* One start() call on a committed workflow whose input schema transforms
\* the input, with steps that use everything their context offers.
ContextConfig ==
    [id |-> "wf1", inputSchema |-> "atLeastOne", outputSchema |-> "any",
     stateSchema |-> Undefined]

InitContext ==
    /\ \E steps \in StepSeqs : builder = thenAll(createWorkflow(ContextConfig), steps)
    /\ workflow = [committed |-> TRUE, config |-> builder.config,
                   steps |-> builder.steps, stepFlow |-> builder.stepFlow]
    /\ db = <<>>
    /\ now = 0
    /\ request = NoRequest
    /\ heap = NoHeap
    /\ call = [c \in Calls |-> IdleCall]
    /\ hist = [c \in Writers |-> IdleHist]
    /\ starts = 0
    /\ storageFailures = MaxStorageFailures
    /\ schema = NewObjects
    /\ legacy = <<>>
    /\ storage = [s \in Storages |-> NewStorage]
    /\ initCall = [i \in InitCallers |-> IdleInitCall]

NextContext ==
    \/ \E inputData \in Numbers, initialState \in InitialStates :
          Start("c1", "r1", inputData, initialState)
    \/ \E c \in Calls : SaveInitial(c)
    \/ \E c \in Calls : BeginStep(c)
    \/ \E c \in Calls, newState \in Numbers : SetState(c, newState)
    \/ \E c \in Calls : GetInitData(c)
    \/ \E c \in Calls, id \in StepIds, caught \in BOOLEAN : GetStepResult(c, id, caught)
    \/ \E c \in Calls, output \in Numbers : StepReturns(c, output)
    \/ \E c \in Calls, e \in Throwables : StepThrows(c, e)
    \/ \E c \in Calls : SaveFailed(c)
    \/ \E c \in Calls : SaveProgress(c)
    \/ \E c \in Calls : FinishLoop(c)
    \/ \E c \in Calls : SaveSuccess(c)
    \/ \E c \in Calls : SaveCatch(c)

SpecContext == InitContext /\ [][NextContext]_vars

\* --------------------------------------------------- branching builders
\* The WorkflowBuilder and Workflow objects made from one createWorkflow
\* call.  A builder holds references to a steps object and a stepFlow
\* array; commit() hands the same references to the Workflow.  Each builder
\* and workflow also remembers the steps of the then() calls that made it
\* (chain), which the code does not store.
MaxBuilders == 4
MaxWorkflows == 2

BuilderConfig ==
    [id |-> "wf1", inputSchema |-> "any", outputSchema |-> "any",
     stateSchema |-> Undefined]

\* The builder object b (or workflow object w) as its fields read now.
BuilderAt(hp, b) ==
    [config |-> BuilderConfig,
     steps |-> hp.objects[hp.builders[b].steps],
     stepFlow |-> hp.arrays[hp.builders[b].stepFlow]]
WorkflowAt(hp, w) ==
    [committed |-> TRUE, config |-> BuilderConfig,
     steps |-> hp.objects[hp.workflows[w].steps],
     stepFlow |-> hp.arrays[hp.workflows[w].stepFlow]]

\* Faulty variant of ThenOn: the step is pushed onto the builder's own array
\* and set in its own steps object, which the new builder shares.
ThenOnInPlace(b, step) ==
    LET this == heap.builders[b]
        next == then(BuilderAt(heap, b), step)
    IN
    /\ Len(heap.builders) < MaxBuilders
    /\ Len(heap.arrays[this.stepFlow]) < MaxSteps
    /\ heap' = [heap EXCEPT
          !.objects[this.steps] = next.steps,
          !.arrays[this.stepFlow] = next.stepFlow,
          !.builders = Append(@, [steps |-> this.steps, stepFlow |-> this.stepFlow,
                                  chain |-> Append(this.chain, step)])]
    /\ UNCHANGED <<request, builder, workflow, db, now, call, hist, starts,
                   storageFailures, initVars>>

\* b.then(step): a new steps object, a new stepFlow array, a new builder.
ThenOn(b, step) ==
    LET this == heap.builders[b]
        next == then(BuilderAt(heap, b), step)
    IN
    /\ Len(heap.builders) < MaxBuilders
    /\ Len(heap.arrays[this.stepFlow]) < MaxSteps
    /\ heap' = [heap EXCEPT
          !.objects = Append(@, next.steps),
          !.arrays = Append(@, next.stepFlow),
          !.builders = Append(@, [steps |-> Len(heap.objects) + 1,
                                  stepFlow |-> Len(heap.arrays) + 1,
                                  chain |-> Append(this.chain, step)])]
    /\ UNCHANGED <<request, builder, workflow, db, now, call, hist, starts,
                   storageFailures, initVars>>

\* b.commit(): new Workflow(this.config, this.steps, this.stepFlow).
CommitOn(b) ==
    LET this == heap.builders[b] IN
    /\ Len(heap.workflows) < MaxWorkflows
    /\ heap' = [heap EXCEPT !.workflows = Append(@, this)]
    /\ UNCHANGED <<request, builder, workflow, db, now, call, hist, starts,
                   storageFailures, initVars>>

\* After createWorkflow(config): `new WorkflowBuilder(config, {}, [])`.
InitBuilders ==
    /\ heap = [arrays |-> << <<>> >>, objects |-> << <<>> >>,
               builders |-> <<[steps |-> 1, stepFlow |-> 1, chain |-> <<>>]>>,
               workflows |-> <<>>]
    /\ builder = createWorkflow(BuilderConfig)
    /\ workflow = [committed |-> FALSE]
    /\ db = <<>>
    /\ now = 0
    /\ request = NoRequest
    /\ call = [c \in Calls |-> IdleCall]
    /\ hist = [c \in Writers |-> IdleHist]
    /\ starts = 0
    /\ storageFailures = 0
    /\ schema = NewObjects
    /\ legacy = <<>>
    /\ storage = [s \in Storages |-> NewStorage]
    /\ initCall = [i \in InitCallers |-> IdleInitCall]

NextBuilders ==
    \/ \E b \in DOMAIN heap.builders, step \in StepDefs : ThenOn(b, step)
    \/ \E b \in DOMAIN heap.builders : CommitOn(b)

SpecBuilders == InitBuilders /\ [][NextBuilders]_vars

\* -------------------------------------------------------- data threading
\* One start() call on a committed workflow whose schemas transform what
\* they parse: the input schema, a step's output schema, and the
\* workflow's output schema.
DataSteps ==
    StepDefs \cup {[id |-> "t", inputSchema |-> "any", outputSchema |-> "atLeastOne"]}
DataStepSeqs == UNION {[1..n -> DataSteps] : n \in 0..MaxSteps}
DataConfigs ==
    [id : {"wf1"}, inputSchema : {"atLeastOne"},
     outputSchema : {"any", "nonzero", "atLeastOne"}, stateSchema : {Undefined}]

InitData ==
    /\ \E config \in DataConfigs, steps \in DataStepSeqs :
          builder = thenAll(createWorkflow(config), steps)
    /\ workflow = [committed |-> TRUE, config |-> builder.config,
                   steps |-> builder.steps, stepFlow |-> builder.stepFlow]
    /\ db = <<>>
    /\ now = 0
    /\ request = NoRequest
    /\ heap = NoHeap
    /\ call = [c \in Calls |-> IdleCall]
    /\ hist = [c \in Writers |-> IdleHist]
    /\ starts = 0
    /\ storageFailures = MaxStorageFailures
    /\ schema = NewObjects
    /\ legacy = <<>>
    /\ storage = [s \in Storages |-> NewStorage]
    /\ initCall = [i \in InitCallers |-> IdleInitCall]

NextData ==
    \/ \E inputData \in Numbers : Start("c1", "r1", inputData, Undefined)
    \/ \E c \in Calls : SaveInitial(c)
    \/ \E c \in Calls : BeginStep(c)
    \/ \E c \in Calls, output \in Numbers : StepReturns(c, output)
    \/ \E c \in Calls, e \in Throwables : StepThrows(c, e)
    \/ \E c \in Calls : SaveFailed(c)
    \/ \E c \in Calls : SaveProgress(c)
    \/ \E c \in Calls : FinishLoop(c)
    \/ \E c \in Calls : SaveSuccess(c)
    \/ \E c \in Calls : SaveCatch(c)

SpecData == InitData /\ [][NextData]_vars

\* ------------------------------------------------------------ the API server
\* ApiServer.handleRequest for POST /api/workflows/:id/runs, with one
\* workflow registered.  The handler starts the run without awaiting it and
\* then loads the run's snapshot: the INSERT of the run's initial snapshot
\* and the handler's SELECT are two statements in flight at the database,
\* which executes them in either order.
\* Request bodies: text that is not JSON, the JSON value null, and objects
\* with or without an inputData member.
Bodies ==
    {[kind |-> "malformed"], [kind |-> "null"]}
    \cup [kind : {"object"}, inputData : Numbers \cup {Undefined}]
Registered == {"wf1"}

\* serializeRun(snapshot)
serializeRun(snapshot) ==
    [runId |-> snapshot.runId,
     workflowId |-> snapshot.workflowId,
     status |-> snapshot.status,
     executionPath |-> snapshot.executionPath,
     stepResults |-> snapshot.stepResults,
     inputData |-> snapshot.inputData,
     result |-> snapshot.result,
     error |-> snapshot.error,
     createdAt |-> snapshot.timestamp,
     updatedAt |-> snapshot.timestamp]

Answer(workflowId, status, error) ==
    [pc |-> "answered", workflowId |-> workflowId, status |-> status, error |-> error]

\* The request arrives: the workflow is looked up, `await request.json()`
\* and `const { inputData } = body`; what throws is answered by the catch.
PostRuns(workflowId, body) ==
    /\ request.pc = "idle"
    /\ request' =
          IF workflowId \notin Registered
          THEN Answer(workflowId, 404, "Workflow not found")
          ELSE IF body.kind = "malformed" THEN Answer(workflowId, 500, "SyntaxError")
          ELSE IF body.kind = "null" THEN Answer(workflowId, 500, "TypeError")
          ELSE [pc |-> "createRun", workflowId |-> workflowId,
                inputData |-> body.inputData]
    /\ UNCHANGED <<heap, builder, workflow, db, now, call, hist, starts, storageFailures,
                   initVars>>

\* `await entry.workflow.createRun()`, then `run.start({ inputData })`
\* without await: execute() runs up to its first await.
PostCreateRun ==
    /\ request.pc = "createRun"
    /\ call["c1"].pc = "idle"
    /\ Start("c1", "r1", request.inputData, Undefined)

\* `await this.storage.loadSnapshot(run.runId)` and the response.
PostLoadSnapshot ==
    LET snapshot == loadSnapshot(db, "r1") IN
    /\ request.pc = "createRun"
    /\ call["c1"].pc # "idle"
    /\ request' =
          IF snapshot = NoSnapshot
          THEN Answer(request.workflowId, 500, "Failed to create run")
          ELSE [pc |-> "answered", workflowId |-> request.workflowId, status |-> 201,
                error |-> Undefined, run |-> serializeRun(snapshot)]
    /\ UNCHANGED <<heap, builder, workflow, db, now, call, hist, starts, storageFailures,
                   initVars>>

InitApi ==
    /\ \E steps \in StepSeqs :
          builder = thenAll(createWorkflow(
                       [id |-> "wf1", inputSchema |-> "nonzero", outputSchema |-> "any",
                        stateSchema |-> Undefined]), steps)
    /\ workflow = [committed |-> TRUE, config |-> builder.config,
                   steps |-> builder.steps, stepFlow |-> builder.stepFlow]
    /\ db = <<>>
    /\ now = 0
    /\ request = NoRequest
    /\ heap = NoHeap
    /\ call = [c \in Calls |-> IdleCall]
    /\ hist = [c \in Writers |-> IdleHist]
    /\ starts = 0
    /\ storageFailures = MaxStorageFailures
    /\ schema = NewObjects
    /\ legacy = <<>>
    /\ storage = [s \in Storages |-> NewStorage]
    /\ initCall = [i \in InitCallers |-> IdleInitCall]

NextApi ==
    \/ \E workflowId \in WorkflowIds, body \in Bodies : PostRuns(workflowId, body)
    \/ PostCreateRun
    \/ PostLoadSnapshot
    \/ Tick
    \/ \E c \in Calls : SaveInitial(c)
    \/ \E c \in Calls : BeginStep(c)
    \/ \E c \in Calls : StepExecutes(c)
    \/ \E c \in Calls : SaveFailed(c)
    \/ \E c \in Calls : SaveProgress(c)
    \/ \E c \in Calls : FinishLoop(c)
    \/ \E c \in Calls : SaveSuccess(c)
    \/ \E c \in Calls : SaveCatch(c)

SpecApi == InitApi /\ [][NextApi]_vars

\* ------------------------------------------------------------------ claims
\* [0, 1, ..., n-1]
UpTo(n) == [j \in 1..n |-> j - 1]
\* The ids of the steps with index 0..i.
IdsUpTo(i) == {workflow.stepFlow[j].step.id : j \in 1..(i + 1)}
Ended(c) == call[c].pc \in {"returned", "rejected"}
StoredSnapshot(c) == loadSnapshot(db, call[c].runId)

\* C1 (fail-fast): when step k yields a failed StepResult, no execution
\* function of a later step is invoked and no result of a later step is
\* recorded, the execution path is [0..k], stepResults has entries only for
\* the ids of steps 0..k, and, once the call has ended without a storage
\* failure, the stored snapshot is failed with execution path [0..k].
FailFast ==
    \A c \in Calls :
        LET k == call[c]
            h == hist[c]
        IN  k.result.status = "failed" =>
              /\ k.pc \in {"saveFailed", "saveCatch", "rejected"}
              /\ \A j \in DOMAIN h.invoked : h.invoked[j] <= k.i
              /\ \A j \in DOMAIN h.recorded : h.recorded[j].step <= k.i
              /\ k.context.executionPath = UpTo(k.i + 1)
              /\ DOMAIN k.context.stepResults \subseteq IdsUpTo(k.i)
              /\ (k.pc = "rejected" /\ ~h.storageFailed) =>
                    /\ StoredSnapshot(c).status = "failed"
                    /\ StoredSnapshot(c).executionPath = UpTo(k.i + 1)
                    /\ DOMAIN StoredSnapshot(c).stepResults \subseteq IdsUpTo(k.i)
                    /\ h.lastWrite.status = "failed"

\* A run that ended failed at a step that is not the last one.
FailFastWitness ==
    \E c \in Calls :
        /\ call[c].pc = "rejected"
        /\ call[c].result.status = "failed"
        /\ call[c].i + 1 < Len(workflow.stepFlow)
        /\ ~hist[c].storageFailed
        /\ StoredSnapshot(c).status = "failed"

\* C2: when the input of start() violates the workflow's input shape, a
\* failed snapshot with an empty execution path is stored for the run id,
\* the call rejects, and no execution function is invoked.
InvalidInputPersisted ==
    \A c \in Calls :
        (/\ call[c].pc = "rejected"
         /\ Parse(workflow.config.inputSchema, hist[c].inputData) = Invalid)
        => /\ call[c].runId \in DOMAIN db
           /\ StoredSnapshot(c).status = "failed"
           /\ StoredSnapshot(c).executionPath = <<>>
           /\ hist[c].invoked = <<>>

\* C3: whenever start() has rejected and no storage operation of the call
\* failed, the stored snapshot of the run id is failed and its error is the
\* message of the error the caller received.
RejectionRecorded ==
    \A c \in Calls :
        (call[c].pc = "rejected" /\ ~hist[c].storageFailed)
        => /\ call[c].runId \in DOMAIN db
           /\ StoredSnapshot(c).status = "failed"
           /\ StoredSnapshot(c).error = ErrorMessage(call[c].error)

\* C4: execution functions are invoked in declared order without skipping
\* (the m-th invocation is of step m-1), step i only after step i-1 was
\* recorded as success, never two at once; a call that returned has
\* execution path [0..N-1] and a stored success snapshot with that path;
\* and a call whose N steps all succeeded and whose output validates, ended
\* without storage failure, has returned.
AllSucceeded(c) ==
    /\ Len(hist[c].recorded) = Len(workflow.stepFlow)
    /\ \A j \in DOMAIN hist[c].recorded : hist[c].recorded[j].status = "success"
InDeclaredOrder ==
    \A c \in Calls :
        LET k == call[c]
            h == hist[c]
        IN  /\ \A j \in DOMAIN h.invoked : h.invoked[j] = j - 1
            /\ \A j \in DOMAIN h.invoked :
                  j > 1 => \E m \in DOMAIN h.recorded :
                              /\ h.recorded[m].step = j - 2
                              /\ h.recorded[m].status = "success"
            /\ Len(h.invoked) <= Len(h.recorded) + 1
            /\ k.pc = "returned" =>
                  /\ AllSucceeded(c)
                  /\ k.context.executionPath = UpTo(Len(workflow.stepFlow))
                  /\ StoredSnapshot(c).status = "success"
                  /\ StoredSnapshot(c).executionPath = UpTo(Len(workflow.stepFlow))
            /\ (/\ Ended(c)
                /\ k.validatedInput # Undefined
                /\ AllSucceeded(c)
                /\ Parse(workflow.config.outputSchema, k.currentOutput) # Invalid
                /\ ~h.storageFailed) => k.pc = "returned"

\* A two-step run that returned.
InDeclaredOrderWitness ==
    \E c \in Calls :
        /\ call[c].pc = "returned"
        /\ hist[c].invoked = <<0, 1>>
        /\ StoredSnapshot(c).executionPath = <<0, 1>>

\* C5: within one call, stepResults[id] is assigned at most once for every
\* step id, for every workflow the builder accepts.
OneResultPerStepId ==
    \A c \in Calls :
        \A m, n \in DOMAIN hist[c].recorded :
            hist[c].recorded[m].id = hist[c].recorded[n].id => m = n

\* C6 (snapshot monotonicity): from one stored snapshot of a run id to the
\* next, the execution path does not get shorter and the status changes
\* only from running to success or failed.
SnapshotMonotonic ==
    [][\A r \in (DOMAIN db) \cap (DOMAIN db') :
          /\ Len(db'[r].execution_path) >= Len(db[r].execution_path)
          /\ db'[r].status # db[r].status => db[r].status = "running"]_vars

\* C7 (shape enforcement): for every candidate input handed to a step that
\* violates the step's input shape, the step's execution function was not
\* invoked and a failed result was recorded for the step.
ShapeEnforced ==
    \A c \in Calls :
        \A j \in DOMAIN hist[c].fed :
            LET f == hist[c].fed[j]
                step == workflow.stepFlow[f.step + 1].step
            IN  Parse(step.inputSchema, f.input) = Invalid =>
                   /\ \A m \in DOMAIN hist[c].invoked : hist[c].invoked[m] # f.step
                   /\ \E m \in DOMAIN hist[c].recorded :
                         hist[c].recorded[m] =
                            [step |-> f.step, id |-> step.id, status |-> "failed"]
                   /\ call[c].result.status = "failed"
                   /\ call[c].context.stepResults[step.id].status = "failed"

\* A step was handed an input outside its shape.
ShapeEnforcedWitness ==
    \E c \in Calls :
        \E j \in DOMAIN hist[c].fed :
            /\ Parse(workflow.stepFlow[hist[c].fed[j].step + 1].step.inputSchema,
                     hist[c].fed[j].input) = Invalid
            /\ call[c].result.status = "failed"
            /\ hist[c].fed[j].step \in {0, 1}

Absent(v) == IF v \in {Undefined, Null} THEN Undefined ELSE v
WorkflowFilters == WorkflowIds \cup {Undefined}
Observable(rows) ==
    [load |-> [r \in RunIds |-> loadSnapshot(rows, r)],
     list |-> [w \in WorkflowFilters |-> listRuns(rows, w)],
     byStatus |-> [x \in Statuses \X WorkflowFilters |->
                      getRunsByStatus(rows, x[1], x[2])]]

\* The writer "api" saves again the snapshot it saved last (or time passes).
SameSnapshotAgain ==
    /\ hist["api"].lastWrite # NoWrite
    /\ hist'["api"].lastWrite = hist["api"].lastWrite

\* C9 as stated (idempotent upsert): saving the same snapshot again leaves
\* the results of loadSnapshot, listRuns and getRunsByStatus, order
\* included, as they were after the first save.
UpsertIdempotent ==
    [][SameSnapshotAgain => Observable(db') = Observable(db)]_vars

\* A snapshot without the timestamp of run r; a result without run r.
WithoutTime(snap, r) == IF snap.runId = r THEN [snap EXCEPT !.timestamp = 0] ELSE snap
WithoutTimes(q, r) == [j \in DOMAIN q |-> WithoutTime(q[j], r)]
WithoutRun(q, r) == SelectSeq(q, LAMBDA snap : snap.runId # r)
Elements(q) == {q[j] : j \in DOMAIN q}

\* C9 as amended: saving the same snapshot again changes nothing but the
\* timestamp of that run: loadSnapshot of every run id is the same up to
\* that timestamp, listRuns and getRunsByStatus return the same snapshots up
\* to that timestamp with the other runs in the same order, and when both
\* saves happen at the same clock value nothing observable changes.
UpsertIdempotentUpToTimestamp ==
    [][SameSnapshotAgain =>
        LET r == hist["api"].lastWrite.runId IN
        /\ \A x \in RunIds :
              WithoutTime(loadSnapshot(db', x), r) = WithoutTime(loadSnapshot(db, x), r)
        /\ \A w \in WorkflowFilters :
              /\ {Elements(WithoutTimes(q, r)) : q \in listRuns(db', w)}
                    = {Elements(WithoutTimes(q, r)) : q \in listRuns(db, w)}
              /\ {WithoutRun(q, r) : q \in listRuns(db', w)}
                    = {WithoutRun(q, r) : q \in listRuns(db, w)}
              /\ \A st \in Statuses :
                    /\ {Elements(WithoutTimes(q, r)) : q \in getRunsByStatus(db', st, w)}
                          = {Elements(WithoutTimes(q, r)) : q \in getRunsByStatus(db, st, w)}
                    /\ {WithoutRun(q, r) : q \in getRunsByStatus(db', st, w)}
                          = {WithoutRun(q, r) : q \in getRunsByStatus(db, st, w)}
        /\ db[r].updated_at = now => Observable(db') = Observable(db)]_vars

\* The same snapshot was saved twice in a row, the second time at a later
\* clock value than the other stored run.
UpsertIdempotentWitness ==
    /\ hist["api"].resaved
    /\ DOMAIN db = RunIds
    /\ \E r \in RunIds :
          /\ hist["api"].lastWrite.runId = r
          /\ db[r].updated_at > db[r].created_at
          /\ \A x \in RunIds \ {r} : db[r].updated_at > db[x].updated_at

\* C10: after saveSnapshot(s), loadSnapshot(s.runId) has the workflowId,
\* status, executionPath, stepResults, state, inputData, result and error
\* of s (null and undefined both count as absent).
WriteSupersedes ==
    hist["api"].lastWrite # NoWrite =>
        LET s == hist["api"].lastWrite
            snap == loadSnapshot(db, s.runId)
        IN  /\ snap.workflowId = s.workflowId
            /\ snap.status = s.status
            /\ snap.executionPath = s.executionPath
            /\ snap.stepResults = s.stepResults
            /\ Absent(snap.state) = Absent(s.state)
            /\ snap.inputData = s.inputData
            /\ Absent(snap.result) = Absent(s.result)
            /\ Absent(snap.error) = Absent(s.error)

\* C11: for every call of start() that returned a value v, the stored
\* snapshot of the run has status success and result v.
ResultPersisted ==
    \A c \in Calls :
        call[c].pc = "returned" =>
            /\ StoredSnapshot(c).status = "success"
            /\ StoredSnapshot(c).result = call[c].returned

\* C12: getStepResult(id) called in step k returns the recorded output of
\* id when an earlier step of this run with that id has a success result,
\* and throws otherwise; when it throws for an id that no earlier step has
\* and the error is not caught, step k is recorded as failed with that
\* error, the call ends rejected with a failed snapshot, and no later step
\* (the one with that id included) is invoked.
LookupChecked ==
    \A c \in Calls :
        LET k == call[c]
            h == hist[c]
            l == hist[c].lastLookup
        IN  l.step >= 0 =>
              /\ l.id \in IdsUpTo(l.step - 1) <=> l.outcome # Thrown
              /\ (l.outcome # Thrown /\ k.pc = "inStep" /\ k.i = l.step) =>
                    /\ k.context.stepResults[l.id].status = "success"
                    /\ l.outcome = k.context.stepResults[l.id].output
                    /\ \E m \in DOMAIN h.recorded :
                          /\ h.recorded[m].id = l.id
                          /\ h.recorded[m].step < l.step
                          /\ h.recorded[m].status = "success"
              /\ (l.outcome = Thrown /\ ~l.caught) =>
                    /\ k.i = l.step
                    /\ k.pc \in {"saveFailed", "saveCatch", "rejected"}
                    /\ k.result.status = "failed"
                    /\ k.result.error \in LookupErrors
                    /\ k.result.error # ZodError
                    /\ h.recorded[Len(h.recorded)] =
                          [step |-> l.step, id |-> workflow.stepFlow[l.step + 1].step.id,
                           status |-> "failed"]
                    /\ \A j \in DOMAIN h.invoked : h.invoked[j] <= l.step
                    /\ (k.pc = "rejected" /\ ~h.storageFailed) =>
                          /\ StoredSnapshot(c).status = "failed"
                          /\ StoredSnapshot(c).error = k.result.error.message

\* Step 0 asked for the result of the step declared after it and did not
\* catch the error: the run has ended failed and step 1 was never invoked.
LookupCheckedWitness ==
    /\ workflow.committed
    /\ Len(workflow.stepFlow) = 2
    /\ \E c \in Calls :
        /\ hist[c].lastLookup.step = 0
        /\ hist[c].lastLookup.id = workflow.stepFlow[2].step.id
        /\ hist[c].lastLookup.id # workflow.stepFlow[1].step.id
        /\ hist[c].lastLookup.outcome = Thrown
        /\ ~hist[c].lastLookup.caught
        /\ call[c].pc = "rejected"
        /\ hist[c].invoked = <<0>>
        /\ StoredSnapshot(c).status = "failed"

\* C13: whatever the interleaving of init() calls, on one WorkflowStorage
\* instance or on several sharing the database, with or without the old
\* table, no init() call fails with an already-exists error, and once a
\* call has resolved the table and both indexes exist.
InitSafe ==
    /\ \A s \in Storages : storage[s].error # AlreadyExists
    /\ \A i \in InitCallers :
          /\ initCall[i].error # AlreadyExists
          /\ initCall[i].pc = "resolved" => NewObjects \subseteq schema

\* A snapshot without its Date.now() values.
WithoutTimestamps(snap) ==
    [snap EXCEPT !.timestamp = 0,
                 !.stepResults = [id \in DOMAIN snap.stepResults |->
                                     [snap.stepResults[id] EXCEPT !.timestamp = 0]]]

\* What an execute() call does when it is the only one: the StepResult of
\* one step, and the snapshots written and the outcome of the whole call.
executeStepAlone(step, inputData) ==
    LET validatedInput == Parse(step.inputSchema, inputData)
        r == Execute(step.id, validatedInput)
        failed(e) == [status |-> "failed", error |-> e, timestamp |-> 0]
    IN  IF validatedInput = Invalid THEN failed(ZodError)
        ELSE IF r.status = "throws" THEN failed(NormalizeError(r.error))
        ELSE IF Parse(step.outputSchema, r.output) = Invalid THEN failed(ZodError)
        ELSE [status |-> "success", output |-> Parse(step.outputSchema, r.output),
              timestamp |-> 0]

RECURSIVE loopAlone(_, _)
loopAlone(k, writes) ==
    IF k.i >= Len(workflow.stepFlow)
    THEN LET validatedOutput == Parse(workflow.config.outputSchema, k.currentOutput)
         IN  IF validatedOutput = Invalid
             THEN [writes |-> Append(writes,
                      Snapshot(k, "failed", Undefined, ErrorMessage(ZodError))),
                   pc |-> "rejected", returned |-> Undefined, error |-> ZodError]
             ELSE [writes |-> Append(writes,
                      Snapshot(k, "success", validatedOutput, Undefined)),
                   pc |-> "returned", returned |-> validatedOutput, error |-> NoError]
    ELSE LET step == workflow.stepFlow[k.i + 1].step
             result == executeStepAlone(step, k.currentOutput)
             rec == Record([k EXCEPT !.context.executionPath = Append(@, k.i)],
                           step.id, result)
         IN  IF result.status = "failed"
             THEN [writes |-> writes \o
                      <<Snapshot(rec, "failed", Undefined, result.error.message),
                        Snapshot(rec, "failed", Undefined, ErrorMessage(result.error))>>,
                   pc |-> "rejected", returned |-> Undefined, error |-> result.error]
             ELSE loopAlone([rec EXCEPT !.currentOutput = result.output, !.i = k.i + 1],
                            Append(writes, Snapshot(rec, "running", Undefined, Undefined)))

executeAlone(runId, inputData) ==
    LET validatedInput == Parse(workflow.config.inputSchema, inputData)
        k == [IdleCall EXCEPT
                !.runId = runId,
                !.validatedInput = validatedInput,
                !.currentOutput = validatedInput,
                !.context = [workflowId |-> workflow.config.id, runId |-> runId,
                             executionPath |-> <<>>, stepResults |-> <<>>,
                             state |-> Undefined, inputData |-> validatedInput]]
    IN  IF validatedInput = Invalid
        THEN [writes |-> <<>>, pc |-> "rejected", returned |-> Undefined,
              error |-> ZodError]
        ELSE loopAlone(k, <<Snapshot(k, "running", Undefined, Undefined)>>)

\* The n-th snapshot a call writes is the n-th it writes when run alone,
\* and it changes no row but that of its own run id.
WritesAsAlone ==
    \A c \in Calls :
        hist'[c].nWrites = hist[c].nWrites + 1 =>
            LET alone == executeAlone(call[c].runId, hist[c].inputData) IN
            /\ hist'[c].nWrites <= Len(alone.writes)
            /\ WithoutTimestamps(hist'[c].lastWrite)
                  = WithoutTimestamps(alone.writes[hist'[c].nWrites])
            /\ \A r \in RunIds \ {call[c].runId} :
                  /\ r \in DOMAIN db' <=> r \in DOMAIN db
                  /\ r \in DOMAIN db => db'[r] = db[r]

\* A call that has ended has written all the snapshots, and has the
\* outcome, of the call run alone.
EndsAsAlone ==
    \A c \in Calls :
        Ended(c) =>
            LET alone == executeAlone(call[c].runId, hist[c].inputData) IN
            /\ hist[c].nWrites = Len(alone.writes)
            /\ call[c].pc = alone.pc
            /\ call[c].returned = alone.returned
            /\ call[c].error = alone.error

InProgress(c) == call[c].pc \notin {"idle", "returned", "rejected"}

\* C15 (single writer per run id): no two execute() calls are in progress
\* on the same run id, and all the snapshots of a run id are written by one
\* execute() call.
SingleWriter ==
    /\ \A c, d \in Calls :
          (c # d /\ InProgress(c) /\ InProgress(d)) => call[c].runId # call[d].runId
    /\ \A c, d \in Calls :
          (c # d /\ hist[c].nWrites > 0 /\ hist[d].nWrites > 0)
             => call[c].runId # call[d].runId

Started(r) == \E c \in Calls : call[c].pc # "idle" /\ call[c].runId = r
Terminal(r) == r \in DOMAIN db /\ db[r].status \in {"success", "failed"}

\* C16 (liveness): when execution functions terminate and storage
\* operations succeed, every start() call eventually returns or rejects,
\* and the stored snapshot of every run id that was started eventually has
\* a terminal status and keeps it.
RunsToCompletion ==
    /\ \A c \in Calls : [](call[c].pc # "idle" => <>Ended(c))
    /\ \A r \in RunIds : [](Started(r) => <>[]Terminal(r))

StepStatuses(c) ==
    [id \in DOMAIN call[c].context.stepResults |-> call[c].context.stepResults[id].status]
FinalSnapshot(c) ==
    IF hist[c].nWrites = 0 THEN NoWrite
    ELSE [WithoutTimestamps(hist[c].lastWrite) EXCEPT !.runId = Undefined]

\* C17 (sequential determinism): two calls on different run ids that were
\* given the same input and have ended have the same execution path, the
\* same outcome (both returned the same value, or both rejected with the
\* same message), the same step-result statuses and, Date.now() values
\* aside, the same final snapshot.
Deterministic ==
    \A c, d \in Calls :
        (/\ Ended(c) /\ Ended(d)
         /\ call[c].runId # call[d].runId
         /\ hist[c].inputData = hist[d].inputData)
        => /\ call[c].pc = call[d].pc
           /\ call[c].context.executionPath = call[d].context.executionPath
           /\ StepStatuses(c) = StepStatuses(d)
           /\ call[c].returned = call[d].returned
           /\ ErrorMessage(call[c].error) = ErrorMessage(call[d].error)
           /\ FinalSnapshot(c) = FinalSnapshot(d)

\* Two runs of a two-step workflow with the same input have both returned.
DeterministicWitness ==
    /\ \A c \in Calls : call[c].pc = "returned"
    /\ call["c1"].runId # call["c2"].runId
    /\ hist["c1"].inputData = hist["c2"].inputData
    /\ call["c1"].context.executionPath = <<0, 1>>

\* The arguments listRuns and getRunsByStatus are called with: a workflow
\* id, the empty string, or none.
ListFilters == WorkflowIds \cup {EmptyString, Undefined}
\* The stored runs a listing with filter w is to return.
StoredRunsOf(w) == {r \in DOMAIN db : w = Undefined \/ db[r].workflow_id = w}
RunIdsIn(q) == {q[j].runId : j \in DOMAIN q}

\* C18: listRuns(w) returns exactly one snapshot for each stored run whose
\* workflow id is w (every stored run without w) and nothing else, and
\* getRunsByStatus(s, w) exactly the stored runs with status s (and
\* workflow id w when given).
ListingExact ==
    \A w \in ListFilters :
        /\ \A q \in listRuns(db, w) :
              /\ RunIdsIn(q) = StoredRunsOf(w)
              /\ Len(q) = Cardinality(StoredRunsOf(w))
              /\ \A j \in DOMAIN q : q[j] = loadSnapshot(db, q[j].runId)
        /\ \A st \in Statuses :
              \A q \in getRunsByStatus(db, st, w) :
                 /\ RunIdsIn(q) = {r \in StoredRunsOf(w) : db[r].status = st}
                 /\ Len(q) = Cardinality(RunIdsIn(q))
                 /\ \A j \in DOMAIN q : q[j] = loadSnapshot(db, q[j].runId)

\* C18 as amended: the same for every w that is a non-empty workflow id or
\* is omitted; the empty string as w is treated as w omitted.
ListingExactWhenGiven ==
    \A w \in ListFilters :
        LET stored == StoredRunsOf(IF w = EmptyString THEN Undefined ELSE w) IN
        /\ \A q \in listRuns(db, w) :
              /\ RunIdsIn(q) = stored
              /\ Len(q) = Cardinality(stored)
              /\ \A j \in DOMAIN q : q[j] = loadSnapshot(db, q[j].runId)
        /\ \A st \in Statuses :
              \A q \in getRunsByStatus(db, st, w) :
                 /\ RunIdsIn(q) = {r \in stored : db[r].status = st}
                 /\ Len(q) = Cardinality(RunIdsIn(q))
                 /\ \A j \in DOMAIN q : q[j] = loadSnapshot(db, q[j].runId)

\* Two runs of different workflows and with different statuses are stored:
\* the listings by workflow and by status each hold one of them.
ListingExactWitness ==
    /\ DOMAIN db = RunIds
    /\ db["r1"].workflow_id # db["r2"].workflow_id
    /\ db["r1"].status # db["r2"].status
    /\ \A q \in listRuns(db, db["r1"].workflow_id) : RunIdsIn(q) = {"r1"}
    /\ \A q \in getRunsByStatus(db, db["r2"].status, Undefined) : RunIdsIn(q) = {"r2"}

\* Run a was saved last after run b was.
SavedAfter(a, b) ==
    \E i, j \in DOMAIN hist["api"].order :
        /\ hist["api"].order[i] = a
        /\ hist["api"].order[j] = b
        /\ i > j
Listings ==
    UNION {listRuns(db, w) \cup UNION {getRunsByStatus(db, st, w) : st \in Statuses} :
             w \in ListFilters}

\* C19 (newest-updated-first): in every result of listRuns and
\* getRunsByStatus, a run whose last saveSnapshot came after that of
\* another returned run stands before it.
NewestFirst ==
    \A q \in Listings :
        \A i, j \in DOMAIN q :
            SavedAfter(q[i].runId, q[j].runId) => i < j

\* C20: a stored run disappears only in a deleteRun call for its run id
\* (no start, createRun, saveSnapshot or init step removes one), and
\* deleteRun(runId) removes the row of runId and leaves every other stored
\* run as it was.
OnlyDeleteRunRemoves ==
    [][/\ \A r \in RunIds :
             (r \in DOMAIN db /\ r \notin DOMAIN db') => DeleteRunCall(r)
       /\ \A r \in RunIds :
             DeleteRunCall(r) =>
                /\ DOMAIN db' = DOMAIN db \ {r}
                /\ \A x \in DOMAIN db' : db'[x] = db[x]]_vars

\* The run r1 was deleted while r2, which a start() call completed, is
\* still stored.
OnlyDeleteRunRemovesWitness ==
    /\ "r1" \notin DOMAIN db
    /\ "r2" \in DOMAIN db
    /\ call["c1"].pc = "returned"
    /\ call["c1"].runId = "r2"
    /\ db["r2"].status = "success"

\* The step whose execution function call c is in, or whose result it holds.
CurrentStep(c) == workflow.stepFlow[call[c].i + 1].step

\* C21: when a step's execution function returns a value that violates the
\* step's output shape, the step is recorded as failed with no output, the
\* value does not become the current output, no later step is handed any
\* input while the failed result stands, and once the call has ended without
\* a storage failure the stored snapshot is failed, its execution path ends
\* at that step and its result for the step is failed without output.
OutputShapeEnforced ==
    /\ [][\A c \in Calls, output \in Numbers :
            (/\ StepReturns(c, output)
             /\ Parse(CurrentStep(c).outputSchema, output) = Invalid)
            => /\ call'[c].pc = "saveFailed"
               /\ call'[c].result.status = "failed"
               /\ call'[c].result.error = ZodError
               /\ "output" \notin DOMAIN call'[c].result
               /\ call'[c].context.stepResults[CurrentStep(c).id] = call'[c].result
               /\ call'[c].currentOutput = call[c].currentOutput
               /\ call'[c].i = call[c].i]_vars
    /\ [][\A c \in Calls :
            (call[c].result.status = "failed" /\ call'[c].result.status = "failed")
            => /\ hist'[c].fed = hist[c].fed
               /\ hist'[c].invoked = hist[c].invoked
               /\ call'[c].i = call[c].i
               /\ call'[c].result = call[c].result]_vars
    /\ [](\A c \in Calls :
            (/\ call[c].pc = "rejected"
             /\ call[c].result.status = "failed"
             /\ ~hist[c].storageFailed)
            => /\ StoredSnapshot(c).status = "failed"
               /\ StoredSnapshot(c).executionPath = UpTo(call[c].i + 1)
               /\ StoredSnapshot(c).stepResults[CurrentStep(c).id].status = "failed"
               /\ "output" \notin DOMAIN StoredSnapshot(c).stepResults[CurrentStep(c).id])

\* A call ended at a step that was invoked on a valid input and whose
\* result is failed with the validation error, not with a thrown one.
OutputShapeEnforcedWitness ==
    \E c \in Calls :
        /\ call[c].pc = "rejected"
        /\ call[c].result.status = "failed"
        /\ call[c].result.error = ZodError
        /\ ~hist[c].storageFailed
        /\ \E m \in DOMAIN hist[c].invoked : hist[c].invoked[m] = call[c].i
        /\ StoredSnapshot(c).status = "failed"

\* C22: when every step has succeeded and the last step's output violates
\* the workflow's output shape, the call does not return: it goes to the
\* catch block with the validation error and, once it has ended without a
\* storage failure, it has rejected with that error and the stored snapshot
\* is failed, carries the error's message and no result, has a success
\* result for every step, and has execution path [0..N-1].
OutputRejected ==
    \A c \in Calls :
        LET k == call[c]
            N == Len(workflow.stepFlow)
        IN  (/\ k.pc \notin {"idle", "saveInitial"}
             /\ k.validatedInput # Undefined
             /\ k.i >= N
             /\ Parse(workflow.config.outputSchema, k.currentOutput) = Invalid)
            => /\ k.pc \in {"loop", "saveCatch", "rejected"}
               /\ k.returned = Undefined
               /\ (k.pc = "rejected" /\ ~hist[c].storageFailed) =>
                     /\ k.error = ZodError
                     /\ StoredSnapshot(c).status = "failed"
                     /\ StoredSnapshot(c).error = ZodError.message
                     /\ StoredSnapshot(c).result = Undefined
                     /\ StoredSnapshot(c).executionPath = UpTo(N)
                     /\ \A j \in 1..N :
                           LET id == workflow.stepFlow[j].step.id IN
                           /\ id \in DOMAIN StoredSnapshot(c).stepResults
                           /\ StoredSnapshot(c).stepResults[id].status = "success"
                     /\ hist[c].lastWrite.status = "failed"

\* A call with two steps, both successful, rejected because of the last
\* output.
OutputRejectedWitness ==
    \E c \in Calls :
        /\ workflow.committed
        /\ Len(workflow.stepFlow) = 2
        /\ call[c].pc = "rejected"
        /\ call[c].i = 2
        /\ AllSucceeded(c)
        /\ Parse(workflow.config.outputSchema, call[c].currentOutput) = Invalid
        /\ ~hist[c].storageFailed
        /\ StoredSnapshot(c).status = "failed"

\* C23: getInitData() returns the validated input of the run, that is the
\* input start() was given as parsed by the workflow's input schema, in
\* every step, whatever earlier steps returned and whatever setState was
\* given; and the input in the execution context never changes.
InitDataConstant ==
    \A c \in Calls :
        /\ hist[c].lastInit.step >= 0 =>
              /\ hist[c].lastInit.value =
                    Parse(workflow.config.inputSchema, hist[c].inputData)
              /\ hist[c].lastInit.value = call[c].validatedInput
        /\ call[c].context.inputData = call[c].validatedInput

\* getInitData() called in the second step, after a setState call; the
\* schema changed the input, and the step's own input is another value.
InitDataConstantWitness ==
    \E c \in Calls :
        /\ call[c].pc = "inStep"
        /\ hist[c].lastInit.step = 1
        /\ call[c].i = 1
        /\ hist[c].lastSet.step >= 0
        /\ hist[c].lastInit.value # hist[c].inputData
        /\ hist[c].lastInit.value # call[c].stepContext.inputData

\* C24: the migration is idempotent and non-destructive: no step of init()
\* or of the migration changes or removes a row of the old table or the old
\* table itself; none changes or removes a row that wrkflw_workflow_runs
\* already has; the copy of a migration that runs after another migration
\* has copied leaves wrkflw_workflow_runs as it was; and after a copy every
\* run id of the old table has a row in wrkflw_workflow_runs.
MigrationSafe ==
    /\ [][/\ legacy' = legacy
          /\ OldTable \in schema => OldTable \in schema']_vars
    /\ [][\A r \in DOMAIN db : r \in DOMAIN db' /\ db'[r] = db[r]]_vars
    /\ [][\A s \in Storages :
            (MigCopy(s) /\ \E t \in Storages : storage[t].copied) => db' = db]_vars
    /\ [](\A s \in Storages : storage[s].copied => DOMAIN legacy \subseteq DOMAIN db)

\* Two migrations have copied; the row the new table had for a run id of
\* the old table is still its own, and the other old row was copied.
MigrationSafeWitness ==
    /\ \A s \in Storages : storage[s].copied
    /\ "r1" \in DOMAIN db /\ "r1" \in DOMAIN legacy
    /\ db["r1"] = ExistingRow
    /\ db["r1"] # legacy["r1"]
    /\ "r2" \in DOMAIN db /\ "r2" \in DOMAIN legacy
    /\ db["r2"] = legacy["r2"]

\* C25: the copy of the old table's rows is performed by at most one
\* init() call: once an init() that copied has completed, no init() of any
\* WorkflowStorage instance performs the copy.
MigratesOnce ==
    [][\A s \in Storages :
         MigCopy(s) => ~\E t \in Storages : storage[t].initialized /\ storage[t].copied]_vars

\* What a builder made by the then() calls of chain holds.
StepsOfChain(chain) ==
    [id \in {chain[j].id : j \in DOMAIN chain} |->
        chain[CHOOSE j \in DOMAIN chain :
                 chain[j].id = id /\ \A m \in DOMAIN chain : chain[m].id = id => m <= j]]
FlowOfChain(chain) == [j \in DOMAIN chain |-> [type |-> "step", step |-> chain[j]]]

\* C26 (copy-on-append): then() returns a new builder and leaves the
\* builder it was called on, every other builder and every committed
\* workflow as they were; so each builder, and each workflow committed from
\* it, holds exactly the steps of the then() calls of its own chain, in
\* their order.
CopyOnAppend ==
    /\ [][/\ \A b \in DOMAIN heap.builders :
               /\ b \in DOMAIN heap'.builders
               /\ BuilderAt(heap', b) = BuilderAt(heap, b)
          /\ \A w \in DOMAIN heap.workflows :
               /\ w \in DOMAIN heap'.workflows
               /\ WorkflowAt(heap', w) = WorkflowAt(heap, w)
          /\ \A b \in DOMAIN heap.builders, step \in StepDefs :
               ThenOn(b, step) =>
                  /\ Len(heap'.builders) = Len(heap.builders) + 1
                  /\ BuilderAt(heap', Len(heap'.builders)) =
                        then(BuilderAt(heap, b), step)]_vars
    /\ [](/\ \A b \in DOMAIN heap.builders :
               /\ BuilderAt(heap, b).stepFlow = FlowOfChain(heap.builders[b].chain)
               /\ BuilderAt(heap, b).steps = StepsOfChain(heap.builders[b].chain)
          /\ \A w \in DOMAIN heap.workflows :
               /\ WorkflowAt(heap, w).stepFlow = FlowOfChain(heap.workflows[w].chain)
               /\ WorkflowAt(heap, w).steps = StepsOfChain(heap.workflows[w].chain))

\* Two chains that share the builder of their first then() call and differ
\* in the second, each committed.
CopyOnAppendWitness ==
    /\ Len(heap.workflows) = 2
    /\ Len(heap.workflows[1].chain) = 2
    /\ Len(heap.workflows[2].chain) = 2
    /\ heap.workflows[1].chain[1] = heap.workflows[2].chain[1]
    /\ heap.workflows[1].chain[2] # heap.workflows[2].chain[2]
    /\ heap.workflows[1].steps # heap.workflows[2].steps
    /\ WorkflowAt(heap, 1).stepFlow # WorkflowAt(heap, 2).stepFlow
    /\ Len(heap.builders) = MaxBuilders

\* C27: a start() call that has rejected, with no storage operation of its
\* own failing, has written exactly one snapshot with status failed.
\* Stated for the calls whose input passed validation; a call with an
\* invalid input writes no snapshot at all (C2).
OneFailedSnapshot ==
    \A c \in Calls :
        (/\ call[c].pc = "rejected"
         /\ call[c].validatedInput # Undefined
         /\ ~hist[c].storageFailed)
        => hist[c].nFailed = 1

\* C28: a storage failure propagates as it is and nothing is written after
\* it: once a saveSnapshot call of a start() call has failed, the call
\* writes no further snapshot, and it rejects with the storage failure.
StorageFailurePropagates ==
    /\ [][\A c \in Calls :
            (hist[c].storageFailed /\ hist'[c].storageFailed)
            => hist'[c].nWrites = hist[c].nWrites]_vars
    /\ [](\A c \in Calls :
            (hist[c].storageFailed /\ Ended(c))
            => call[c].pc = "rejected" /\ call[c].error = StorageError)

\* C29 (at-least-attempted visibility): while the execution function of
\* step k runs, the stored snapshot of the run has k in its execution path,
\* so that a process that stops there leaves a record of the attempt.
AttemptVisible ==
    \A c \in Calls :
        call[c].pc = "inStep" =>
            /\ call[c].runId \in DOMAIN db
            /\ \E j \in DOMAIN StoredSnapshot(c).executionPath :
                  StoredSnapshot(c).executionPath[j] = call[c].i

\* C30: while the execution function of step i runs, the last snapshot the
\* call has written, which is the stored one, is for its run id, has status
\* running and execution path [0..i-1], and holds a success result for
\* each of the steps 0..i-1 and for no other step; for i = 0 it is the
\* initial snapshot, with empty path and no results.
ProgressPersisted ==
    \A c \in Calls :
        LET k == call[c]
            w == hist[c].lastWrite
        IN  k.pc = "inStep" =>
              /\ w.runId = k.runId
              /\ w.status = "running"
              /\ w.executionPath = UpTo(k.i)
              /\ DOMAIN w.stepResults = {workflow.stepFlow[j].step.id : j \in 1..k.i}
              /\ \A id \in DOMAIN w.stepResults : w.stepResults[id].status = "success"
              /\ StoredSnapshot(c).status = "running"
              /\ StoredSnapshot(c).executionPath = UpTo(k.i)
              /\ DOMAIN StoredSnapshot(c).stepResults = DOMAIN w.stepResults
              /\ \A id \in DOMAIN w.stepResults :
                    StoredSnapshot(c).stepResults[id].status = "success"

\* The second step runs; the stored snapshot is the one written after the
\* first step.
ProgressPersistedWitness ==
    \E c \in Calls :
        /\ call[c].pc = "inStep"
        /\ call[c].i = 1
        /\ hist[c].lastWrite.executionPath = <<0>>
        /\ hist[c].nWrites = 2
        /\ StoredSnapshot(c).executionPath = <<0>>

\* The output recorded for the step with index i (i >= 0) of call c.
RecordedOutput(c, i) ==
    call[c].context.stepResults[workflow.stepFlow[i + 1].step.id].output

\* C31 (data threading): the candidate input step 0 is handed is the
\* validated workflow input; the one step i >= 1 is handed is the output
\* recorded in the success result of step i-1; and the value start()
\* returns is the last step's recorded output as parsed by the workflow's
\* output schema.
DataThreaded ==
    /\ [][\A c \in Calls :
            BeginStep(c) =>
               LET k == call[c]
                   f == hist'[c].fed[Len(hist'[c].fed)]
               IN  /\ f.step = k.i
                   /\ IF k.i = 0 THEN f.input = k.validatedInput
                      ELSE /\ k.result.status = "success"
                           /\ k.context.stepResults[workflow.stepFlow[k.i].step.id]
                                 = k.result
                           /\ f.input = RecordedOutput(c, k.i - 1)]_vars
    /\ [](\A c \in Calls :
            (call[c].pc \in {"saveSuccess", "returned"} /\ Len(workflow.stepFlow) > 0)
            => call[c].returned =
                  Parse(workflow.config.outputSchema,
                        RecordedOutput(c, Len(workflow.stepFlow) - 1)))

\* A call that returned after two steps: the first step's schema changed
\* the value its function returned, the second was handed the changed value,
\* and the workflow's output schema changed the last output.
DataThreadedWitness ==
    \E c \in Calls :
        /\ call[c].pc = "returned"
        /\ Len(workflow.stepFlow) = 2
        /\ workflow.stepFlow[1].step.outputSchema = "atLeastOne"
        /\ hist[c].fed[1].input = call[c].validatedInput
        /\ hist[c].fed[2].input = RecordedOutput(c, 0)
        /\ call[c].returned # RecordedOutput(c, 1)

\* The step ids of the committed workflow are pairwise distinct.
DistinctStepIds ==
    \A i, j \in DOMAIN workflow.stepFlow :
        i # j => workflow.stepFlow[i].step.id # workflow.stepFlow[j].step.id

\* The shape the claim gives a snapshot with path p and results sr.
WellShaped(status, p, sr) ==
    \E n \in 0..Len(workflow.stepFlow) :
        /\ p = UpTo(n)
        /\ DOMAIN sr = {workflow.stepFlow[j].step.id : j \in 1..n}
        /\ \A id \in DOMAIN sr : sr[id].status \in {"success", "failed"}
        /\ \A j \in 1..n :
              sr[workflow.stepFlow[j].step.id].status = "failed"
                 => (j = n /\ status = "failed")

\* C32: for a workflow with distinct step ids, every snapshot a start()
\* call writes, and the row stored for its run id, has execution path
\* [0..k-1] for some k <= N, results for exactly the ids of steps 0..k-1,
\* each success or failed, and a failed result only for step k-1 and only
\* when the snapshot's status is failed.
SnapshotWellShaped ==
    \A c \in Calls :
        (workflow.committed /\ DistinctStepIds /\ hist[c].nWrites > 0)
        => /\ WellShaped(hist[c].lastWrite.status, hist[c].lastWrite.executionPath,
                         hist[c].lastWrite.stepResults)
           /\ WellShaped(StoredSnapshot(c).status, StoredSnapshot(c).executionPath,
                         StoredSnapshot(c).stepResults)

\* A failed snapshot of a two-step workflow: the first step succeeded, the
\* second failed.
SnapshotWellShapedWitness ==
    \E c \in Calls :
        /\ workflow.committed
        /\ DistinctStepIds
        /\ Len(workflow.stepFlow) = 2
        /\ hist[c].nWrites > 0
        /\ hist[c].lastWrite.status = "failed"
        /\ hist[c].lastWrite.executionPath = <<0, 1>>
        /\ hist[c].lastWrite.stepResults[workflow.stepFlow[1].step.id].status = "success"
        /\ hist[c].lastWrite.stepResults[workflow.stepFlow[2].step.id].status = "failed"
        /\ StoredSnapshot(c).executionPath = <<0, 1>>

\* The messages an error of a run can carry.
ErrorMessages ==
    {ErrorMessage(e) : e \in Throwables \cup LookupErrors \cup {ZodError, StorageError}}

\* C33: in every stored snapshot of a run the engine executed, status
\* failed implies that the error is a string and the result is absent,
\* status running or success implies that the error is absent, and a result
\* is present only with status success; also after the run id was executed
\* again.
OutcomeConsistent ==
    \A r \in DOMAIN db :
        LET s == loadSnapshot(db, r) IN
        /\ s.status \in Statuses
        /\ s.status = "failed" => (s.error \in ErrorMessages /\ s.result = Undefined)
        /\ s.status \in {"running", "success"} => s.error = Null
        /\ s.result # Undefined => s.status = "success"

\* A run id is executed again: the first snapshot of the second execution
\* has replaced a row that an earlier execution had created.
OutcomeConsistentWitness ==
    \E c \in Calls :
        /\ starts = 2
        /\ hist[c].nWrites = 1
        /\ call[c].runId \in DOMAIN db
        /\ db[call[c].runId].created_at # db[call[c].runId].updated_at
        /\ StoredSnapshot(c).status = "running"
        /\ StoredSnapshot(c).error = Null

\* C34: a POST /api/workflows/:id/runs request for a registered workflow is
\* answered 201 with the run's initial snapshot (running, empty execution
\* path, no step results), whatever its body and however the background
\* start() interleaves with the handler.  Stated for the bodies that are
\* JSON objects; any other body makes the handler throw and is answered 500
\* by its catch.
RunCreated ==
    (/\ request.pc = "answered"
     /\ request.workflowId \in Registered
     /\ request.error \notin {"SyntaxError", "TypeError"})
    => /\ request.status = 201
       /\ request.run.runId = "r1"
       /\ request.run.status = "running"
       /\ request.run.executionPath = <<>>
       /\ request.run.stepResults = <<>>

\* C35: a run that is not stored (deleteRun removed it) stays absent from
\* wrkflw_workflow_runs, and so from loadSnapshot, listRuns and
\* getRunsByStatus, until a saveSnapshot call for its run id: no other
\* operation, init() of another WorkflowStorage included, brings the row back.
StaysDeleted ==
    [][\A r \in RunIds :
         (r \notin DOMAIN db /\ r \in DOMAIN db')
         => \E c \in Calls :
               /\ hist'[c].nWrites = hist[c].nWrites + 1
               /\ hist'[c].lastWrite.runId = r]_vars

\* The body of init() of instance s is between its start and its end.
SettingUp(s) == storage[s].pc \notin {"none", "done", "failed"}

\* C36: on one WorkflowStorage instance the body of init() is started at
\* most once, whatever init() calls are made and however they interleave;
\* an init() call made while the body runs starts nothing and waits for it;
\* and no init() call resolves before the body has completed, that is
\* before the table and both indexes exist and the instance is initialized.
SetupOnce ==
    /\ [][\A s \in Storages :
            /\ storage'[s].pc = "import" => storage[s].pc \in {"none", "import"}
            /\ storage[s].pc # "none" => storage'[s].pc # "none"]_vars
    /\ [][\A i \in InitCallers, s \in Storages :
            (CallInit(i, s) /\ SettingUp(s))
            => /\ storage' = storage
               /\ initCall'[i].pc = "waiting"
               /\ initCall'[i].storage = s]_vars
    /\ [](\A i \in InitCallers :
            initCall[i].pc = "resolved"
            => /\ storage[initCall[i].storage].initialized
               /\ storage[initCall[i].storage].pc = "done"
               /\ NewObjects \subseteq schema)

\* Three init() calls on one instance have resolved, after its one setup.
SetupOnceWitness ==
    \E s \in Storages :
        /\ \A i \in InitCallers : initCall[i].storage = s
        /\ \A i \in InitCallers : initCall[i].pc = "resolved"
        /\ storage[s].pc = "done"

\* C37 (sticky failure): once the body of init() has failed on an instance,
\* nothing on that instance changes any more, so no setup is attempted
\* again; every init() call on it that has settled was rejected with the
\* failure of the body; and no start() call is made on the workflow that
\* owns the instance, because its createRun() rejects.
InitFailureSticky ==
    /\ [][\A s \in Storages :
            storage[s].pc = "failed" => storage'[s] = storage[s]]_vars
    /\ [][\A i \in InitCallers, s \in Storages :
            (CallInit(i, s) /\ storage[s].pc = "failed")
            => initCall'[i].pc = "waiting" /\ initCall'[i].storage = s]_vars
    /\ [](\A i \in InitCallers :
            LET s == initCall[i].storage IN
            (initCall[i].pc \in {"resolved", "rejected"} /\ storage[s].pc = "failed")
            => /\ initCall[i].pc = "rejected"
               /\ initCall[i].error = storage[s].error
               /\ storage[s].initPromise = "rejected"
               /\ ~storage[s].initialized)
    /\ [][storage["s1"].pc = "failed" => call' = call]_vars

\* The setup of the workflow's storage failed and three init() calls on it
\* were rejected with its failure.
InitFailureStickyWitness ==
    /\ storage["s1"].pc = "failed"
    /\ \A i \in InitCallers :
          /\ initCall[i].storage = "s1"
          /\ initCall[i].pc = "rejected"
          /\ initCall[i].error = storage["s1"].error
    /\ call["c1"].pc = "idle"

\* C38: the state field of a step's context is the workflow state at the
\* moment the step started: setState(v) inside the step sets the state of
\* the shared execution context to v, which the next snapshot and the next
\* step's context take, and leaves the running step's state field as it
\* was, equal to the state of the snapshot written before the step.
StateReadAtStart ==
    /\ [][\A c \in Calls :
            BeginStep(c) =>
               (call'[c].pc = "inStep"
                => call'[c].stepContext.state = call[c].context.state)]_vars
    /\ [][\A c \in Calls, v \in Numbers :
            SetState(c, v) =>
               /\ call'[c].context.state = v
               /\ call'[c].stepContext.state = call[c].stepContext.state]_vars
    /\ [](\A c \in Calls :
            (call[c].pc = "inStep" /\ hist[c].nWrites > 0)
            => call[c].stepContext.state = hist[c].lastWrite.state)
    /\ [](\A c \in Calls :
            (call[c].pc = "loop" /\ hist[c].nWrites > 0)
            => hist[c].lastWrite.state = call[c].context.state)

\* A step has called setState with a value other than the state it started
\* with: its own state field still has the old value.
StateReadAtStartWitness ==
    \E c \in Calls :
        /\ call[c].pc = "inStep"
        /\ hist[c].lastSet.step = call[c].i
        /\ call[c].context.state = hist[c].lastSet.value
        /\ call[c].stepContext.state # call[c].context.state

====
